---- MODULE Spec2Model ----
(***************************************************************************)
(* A model of purr (tapcraft-io/purr): the watch-backed cluster cache      *)
(* (internal/k8s/cache.go), the destructive-command classifier             *)
(* (internal/exec/kubectl.go), the key handling of the terminal UI         *)
(* (internal/tui/update.go), the command registry and the completion       *)
(* engine (internal/kubecomplete), the command parser (package exec) and   *)
(* the command history (internal/history).                                 *)
(*                                                                         *)
(* The parts have their own variables and their own specification:         *)
(*   Spec / FairSpec   the cache, its watchers and its resync              *)
(*   ObsSpec           Spec, recording what each resync listed             *)
(*   ResyncFairSpec    a cache that is never stopped                       *)
(*   RefreshSpec       Spec, with one more goroutine that calls Refresh    *)
(*   StopFairSpec      FairSpec, with one Stop that records it was called  *)
(*   ReadSpec          Spec, with a caller of the cache's read methods     *)
(*   ClassifySpec      IsDestructive applied to bounded command lines      *)
(*   UISpec            the UI's modes and the commands it dispatches       *)
(*   MatchSpec         NewRegistry and MatchCommand on grammars of paths   *)
(*   RegSpec           NewRegistry, twice, on grammars with flags          *)
(*   CompSpec          Complete, twice on one input, on a built registry   *)
(*   ScenarioSpec      Complete on the lines of the rollout scenarios      *)
(*   GetSpec           Complete on lines of get with flags and arguments   *)
(*   ParseSpec         Parse on bounded lines, and with a flag repeated    *)
(*   HistorySpec       a History and its file: Add, Delete, Clear, Save,   *)
(*                     Load                                                *)
(*   HistCallSpec      two goroutines that call one History, with h.mu     *)
(***************************************************************************)
EXTENDS Integers, Sequences, FiniteSets, TLC

(***************************************************************************)
(* Universe and bounds                                                     *)
(***************************************************************************)
\* names a namespace, a namespaced object and a node can have
NsNames == {"n1", "n2"}
ObjNames == {"p1"}
NodeNames == {"k1"}

\* The namespaced kinds in the order refreshNamespace lists them. The code
\* has ten of them (pods .. ingresses); their watchers and their list/write
\* pairs are copies of one another, so the model carries the first.
KindSeq == <<"pods">>
NsKinds == {KindSeq[j] : j \in 1..Len(KindSeq)}
\* The watched kinds. watchNodes is watchNamespaces without the cascade and
\* touches rc.nodes only: the model carries the namespace watcher and the
\* watcher of a namespaced kind, and keeps the nodes of the cluster fixed.
Watchers == {"namespaces"} \cup NsKinds

\* scope of a cluster-scoped kind (Pods("") / Namespaces() / Nodes())
Cluster == "-"
Scopes == NsNames \cup {Cluster}

\* number of changes the cluster makes in a run of Spec, of FairSpec, of
\* ResyncFairSpec and of ReadSpec
MaxClusterOps == 2
MaxFairOps == 1
MaxResyncOps == 2
MaxReadOps == 1
\* a record's content is its generation, 0..MaxGen
MaxGen == 1

Rec(n, g) == [name |-> n, gen |-> g]
Names(seq) == {seq[i].name : i \in 1..Len(seq)}
SetNames(S) == {r.name : r \in S}

\* the order in which the API server returns a list (by key)
NameOrder == <<"k1", "n1", "n2", "p1", "p2">>
Rank(n) == CHOOSE i \in 1..Len(NameOrder) : NameOrder[i] = n

RECURSIVE SortedSeq(_)
SortedSeq(S) ==
    IF S = {} THEN <<>>
    ELSE LET r == CHOOSE x \in S : \A y \in S : Rank(x.name) <= Rank(y.name)
         IN  <<r>> \o SortedSeq(S \ {r})

(***************************************************************************)
(* State                                                                   *)
(***************************************************************************)
VARIABLES
    \* the cluster (the API server's content) and its remaining changes
    cl,             \* [kind -> [scope -> set of records]]
    opsLeft,
    \* ResourceCache fields
    namespaces,     \* rc.namespaces: sequence of records
    res,            \* rc.pods, rc.deployments, ..: [kind -> map ns -> sequence]
    nodes,          \* rc.nodes
    lastRefresh,    \* rc.lastRefresh: 0 is the zero time, 1 a time.Now()
    refreshing,     \* rc.refreshing
    ctxSet,         \* rc.cancel != nil
    cancelled,      \* rc.ctx is done
    \* goroutines
    startPc,        \* the goroutine that calls Start
    rf,             \* the locals of the Refresh in progress
    wpc,            \* [watcher -> position]
    streams,        \* [watcher -> events not yet received from ResultChan]
    resyncPc,       \* backgroundRefresh
    \* history of what the watchers and the resync did, read by the properties
    nsGone,         \* namespaces whose DELETED was observed, no ADDED since
    obs,            \* the running resync: clean so far, content at list time
    track,          \* whether obs is recorded (the specifications that read it)
    \* the classifier under test
    line,           \* a command line: [bang, toks]
    verdict,        \* <<what IsDestructive returned for it>>, <<>> before
    \* the command registry
    root,           \* RootSpec.Commands: the grammar NewRegistry is given
    cmds,           \* the map NewRegistry fills (Registry.Commands)
    bi,             \* NewRegistry's loop index into root, 0 when not building
    rt,             \* the CommandRuntime under construction
    todo,           \* the keys of spec.Flags the range loop has yet to visit
    prev,           \* <<the registry of the previous build>>, <<>> before
    tokens,         \* the argument of the last MatchCommand
    matched,        \* <<its result>>, <<>> before
    \* tui.Model
    mode,           \* m.mode
    input,          \* m.commandInput.Value()
    lastCmd,        \* m.lastCmd
    hasOutput,      \* m.cmdOutput != ""
    cmdError,       \* m.cmdError != nil
    disk,           \* the entries in the history file
    hist,           \* m.history: entries, newest first
    executorOk,     \* m.executor != nil
    pending,        \* commands handed to the executor, result not yet back
    asked,          \* commands the confirmation state was entered for
    lastRun,        \* the last command handed to the executor
    \* a caller of the cache's read methods
    rd,             \* the read in progress: its position, its bucket, its copy
    held,           \* the list the last read returned
    \* a caller of Completer.Complete
    cworld,         \* Completer.Cache: <<>> when nil, <<the snapshot>> else
    cin,            \* <<the line, cursor and context of the calls>>, <<>> before
    cout,           \* what the calls returned, in their order
    \* a caller of Parser.Parse
    pin,            \* the lines handed to Parse, in the order of the calls
    pout,           \* the ParsedCommand each call returned
    \* the goroutines that call a History, and its mutex
    hgo,            \* per goroutine: the call it is in and where in it
    hmu,            \* h.mu: the writer that has or waits for it, the readers
    \* the callers of the cache besides Start
    rcall,          \* a goroutine that calls rc.Refresh(): where it is
    stopped         \* main has called rc.Stop()

cacheVars == <<cl, opsLeft, namespaces, res, nodes, lastRefresh, refreshing,
               ctxSet, cancelled, startPc, rf, wpc, streams, resyncPc,
               nsGone, obs, track>>

regVars == <<root, cmds, bi, rt, todo, prev, tokens, matched>>
compVars == <<cworld, cin, cout>>
fnVars == <<line, verdict, regVars, compVars>>
uiVars == <<mode, input, lastCmd, hasOutput, cmdError, disk, hist, executorOk,
            pending,
            asked, lastRun>>

rdVars == <<rd, held>>
parseVars == <<pin, pout>>
histVars == <<hgo, hmu>>
callVars == <<rcall, stopped>>

vars == <<cacheVars, fnVars, uiVars, rdVars, parseVars, histVars, callVars>>

\* the cache does not touch the classifier or the UI
Rest == UNCHANGED <<fnVars, uiVars, rdVars, parseVars, histVars, callVars>>

\* a writer that does not take rc.mu
MuFreeAlways == TRUE

\* rc.mu.Lock() returns once no reader holds rc.mu.RLock()
MuFree == rd.pc = "idle"

(***************************************************************************)
(* Sequence helpers (the loops of the watch handlers)                      *)
(***************************************************************************)
\* for i, existing := range s { if existing.Name == name { ... break } }
IndexOf(s, name) ==
    IF name \in Names(s)
    THEN CHOOSE i \in 1..Len(s) :
            /\ s[i].name = name
            /\ \A j \in 1..(i - 1) : s[j].name # name
    ELSE 0

\* append(s[:i], s[i+1:]...)
RemoveAt(s, i) == [p \in 1..(Len(s) - 1) |-> IF p < i THEN s[p] ELSE s[p + 1]]

\* s[i] = r
ReplaceAt(s, i, r) == [s EXCEPT ![i] = r]

MapGet(m, key) == IF key \in DOMAIN m THEN m[key] ELSE <<>>
MapSet(m, key, v) ==
    [x \in DOMAIN m \cup {key} |-> IF x = key THEN v ELSE m[x]]
MapDelete(m, key) == [x \in DOMAIN m \ {key} |-> m[x]]
EmptyMap == [x \in {} |-> <<>>]


(***************************************************************************)
(* The cluster: objects are created, modified and deleted; every change is *)
(* sent as an event on the open watch streams of its kind.                 *)
(***************************************************************************)
AllKinds == Watchers \cup {"nodes"}
ScopeOf(k, ns) == IF k \in NsKinds THEN ns ELSE Cluster
NamesOfKind(k) ==
    IF k = "namespaces" THEN NsNames
    ELSE IF k = "nodes" THEN NodeNames ELSE ObjNames
ClNsNames == SetNames(cl["namespaces"][Cluster])

Event(t, s, r) == [type |-> t, ns |-> s, obj |-> r]

\* the event reaches the streams that are open
Emit(k, ev) ==
    streams' = [w \in Watchers |->
                  IF w = k /\ wpc[w] = "stream"
                  THEN Append(streams[w], ev) ELSE streams[w]]

ClCreate(k, s, n) ==
    /\ opsLeft > 0
    /\ s = ScopeOf(k, s)
    /\ k \in NsKinds => s \in ClNsNames
    /\ n \in NamesOfKind(k)
    /\ n \notin SetNames(cl[k][s])
    /\ cl' = [cl EXCEPT ![k][s] = @ \cup {Rec(n, 0)}]
    /\ opsLeft' = opsLeft - 1
    /\ Emit(k, Event("ADDED", s, Rec(n, 0)))
    /\ UNCHANGED <<namespaces, res, nodes, lastRefresh, refreshing, ctxSet,
                   cancelled, startPc, rf, wpc, resyncPc, nsGone, obs, track>>
    /\ Rest

ClModify(k, s, r) ==
    /\ opsLeft > 0
    /\ r \in cl[k][s]
    /\ r.gen < MaxGen
    /\ cl' = [cl EXCEPT ![k][s] = (@ \ {r}) \cup {Rec(r.name, r.gen + 1)}]
    /\ opsLeft' = opsLeft - 1
    /\ Emit(k, Event("MODIFIED", s, Rec(r.name, r.gen + 1)))
    /\ UNCHANGED <<namespaces, res, nodes, lastRefresh, refreshing, ctxSet,
                   cancelled, startPc, rf, wpc, resyncPc, nsGone, obs, track>>
    /\ Rest

\* a namespace is removed once its content is gone
ClDelete(k, s, r) ==
    /\ opsLeft > 0
    /\ r \in cl[k][s]
    /\ k = "namespaces" => \A k2 \in NsKinds : cl[k2][r.name] = {}
    /\ cl' = [cl EXCEPT ![k][s] = @ \ {r}]
    /\ opsLeft' = opsLeft - 1
    /\ Emit(k, Event("DELETED", s, r))
    /\ UNCHANGED <<namespaces, res, nodes, lastRefresh, refreshing, ctxSet,
                   cancelled, startPc, rf, wpc, resyncPc, nsGone, obs, track>>
    /\ Rest

ClusterStep ==
    \E k \in Watchers, s \in Scopes :
        \/ \E n \in NamesOfKind(k) : ClCreate(k, s, n)
        \/ \E r \in cl[k][s] : ClModify(k, s, r)
        \/ \E r \in cl[k][s] : ClDelete(k, s, r)

(***************************************************************************)
(* Watch event handlers (the body of each watcher's switch event.Type)     *)
(***************************************************************************)
\* an ADDED handler without the existence check
ApplyAddedNoCheck(s, r) == Append(s, r)

\* case "ADDED": insert unless a record of that name exists
ApplyAdded(s, r) == IF r.name \in Names(s) THEN s ELSE Append(s, r)

\* case "DELETED": remove the first record of that name
ApplyDeleted(s, r) ==
    LET i == IndexOf(s, r.name) IN IF i = 0 THEN s ELSE RemoveAt(s, i)

\* a MODIFIED handler that moves the record to the end of the bucket
ApplyModifiedMoves(s, r) ==
    LET i == IndexOf(s, r.name)
    IN  IF i = 0 THEN s ELSE Append(RemoveAt(s, i), r)

\* case "MODIFIED": replace the first record of that name in place
ApplyModified(s, r) ==
    LET i == IndexOf(s, r.name) IN IF i = 0 THEN s ELSE ReplaceAt(s, i, r)

ApplyToSeq(s, ev) ==
    IF ev.type = "ADDED" THEN ApplyAdded(s, ev.obj)
    ELSE IF ev.type = "DELETED" THEN ApplyDeleted(s, ev.obj)
    ELSE ApplyModified(s, ev.obj)

\* rc.pods[ns] under an event: ADDED creates the bucket, the others need it
ApplyToMap(m, ev) ==
    IF ev.type = "ADDED"
    THEN MapSet(m, ev.ns, ApplyAdded(MapGet(m, ev.ns), ev.obj))
    ELSE IF ev.ns \in DOMAIN m
         THEN MapSet(m, ev.ns, ApplyToSeq(m[ev.ns], ev))
         ELSE m

\* namespace DELETED: delete(rc.pods, ns.Name) ... for every namespaced
\* kind, inside the loop that found the namespace in rc.namespaces
NsCascade(m, ev) ==
    IF ev.type = "DELETED" /\ ev.obj.name \in Names(namespaces)
    THEN [k \in NsKinds |-> MapDelete(m[k], ev.obj.name)]
    ELSE m

\* rc.namespaces = nsList.Items makes the cache's slice share its array
\* with the slice Refresh ranges over: what the namespace watcher writes in
\* place shows in rf.items (cap(nsList.Items) = len(nsList.Items) assumed,
\* so an append to a full slice moves rc.namespaces to a new array).
ItemsAfter(ev) ==
    LET m == Len(namespaces)
        i == IndexOf(namespaces, ev.obj.name)
        L == Len(rf.items)
    IN  IF ~rf.shared THEN rf.items
        ELSE IF ev.type = "DELETED" /\ i > 0
        THEN [p \in 1..L |-> IF p >= i /\ p < m THEN rf.items[p + 1]
                             ELSE rf.items[p]]
        ELSE IF ev.type = "MODIFIED" /\ i > 0
        THEN [rf.items EXCEPT ![i] = ev.obj]
        ELSE IF ev.type = "ADDED" /\ i = 0 /\ m < L
        THEN [rf.items EXCEPT ![m + 1] = ev.obj]
        ELSE rf.items

SharedAfter(ev) ==
    /\ rf.shared
    /\ ~(/\ ev.type = "ADDED"
         /\ ev.obj.name \notin Names(namespaces)
         /\ Len(namespaces) = Len(rf.items))

\* a watch event applied while a resync runs: the resync is no longer one
\* 'with no watch event applied meanwhile'
ObsTouched ==
    [clean |-> FALSE, done |-> FALSE,
     ns |-> {}, objs |-> [k \in NsKinds |-> [n \in NsNames |-> {}]],
     nodes |-> {}, late |-> {}]

\* the names that events have been applied to in the bucket the resync has
\* listed and not yet written (recorded where obs is)
LateAfter(w, ev) ==
    IF track /\ rf.pc = "writeK" /\ KindSeq[rf.j] = w /\ ev.ns = rf.ns
    THEN obs.late \cup {ev.obj.name}
    ELSE obs.late

(***************************************************************************)
(* The watchers: watchNamespaces, watchPods (and its copies)               *)
(***************************************************************************)
\* a loop head that does not look at rc.ctx
WatchTopNoDone(w) ==
    /\ wpc[w] = "top"
    /\ wpc' = [wpc EXCEPT ![w] = "watch"]
    /\ UNCHANGED <<cl, opsLeft, namespaces, res, nodes, lastRefresh,
                   refreshing, ctxSet, cancelled, startPc, rf, streams,
                   resyncPc, nsGone, obs, track>>
    /\ Rest

\* select { case <-rc.ctx.Done(): return; default: }
WatchTop(w) ==
    /\ wpc[w] = "top"
    /\ wpc' = [wpc EXCEPT ![w] = IF cancelled THEN "done" ELSE "watch"]
    /\ UNCHANGED <<cl, opsLeft, namespaces, res, nodes, lastRefresh,
                   refreshing, ctxSet, cancelled, startPc, rf, streams,
                   resyncPc, nsGone, obs, track>>
    /\ Rest

\* Watch(rc.ctx, ListOptions{}): with no resourceVersion the stream starts
\* with an ADDED event for every object that exists
WatchOpenOk(w) ==
    /\ wpc[w] = "watch"
    /\ ~cancelled
    /\ wpc' = [wpc EXCEPT ![w] = "stream"]
    /\ streams' = [streams EXCEPT ![w] =
          IF w \in NsKinds
          THEN LET RECURSIVE All(_)
                   All(S) == IF S = {} THEN <<>>
                             ELSE LET n == CHOOSE x \in S :
                                        \A y \in S : Rank(x) <= Rank(y)
                                      evs == SortedSeq(cl[w][n])
                                  IN  [i \in 1..Len(evs) |->
                                         Event("ADDED", n, evs[i])]
                                      \o All(S \ {n})
               IN  All(NsNames)
          ELSE LET evs == SortedSeq(cl[w][Cluster])
               IN  [i \in 1..Len(evs) |-> Event("ADDED", Cluster, evs[i])]]
    /\ UNCHANGED <<cl, opsLeft, namespaces, res, nodes, lastRefresh,
                   refreshing, ctxSet, cancelled, startPc, rf, resyncPc,
                   nsGone, obs, track>>
    /\ Rest

\* if err != nil { time.Sleep(5 * time.Second); continue }
WatchOpenFail(w) ==
    /\ wpc[w] = "watch"
    /\ wpc' = [wpc EXCEPT ![w] = "sleep5"]
    /\ UNCHANGED <<cl, opsLeft, namespaces, res, nodes, lastRefresh,
                   refreshing, ctxSet, cancelled, startPc, rf, streams,
                   resyncPc, nsGone, obs, track>>
    /\ Rest

\* for event := range watcher.ResultChan() { rc.mu.Lock() ... Unlock() }
WatchEvent(w) ==
    /\ MuFree
    /\ wpc[w] = "stream"
    /\ streams[w] # <<>>
    /\ LET ev == Head(streams[w]) IN
         /\ streams' = [streams EXCEPT ![w] = Tail(@)]
         /\ IF w = "namespaces"
            THEN /\ namespaces' = ApplyToSeq(namespaces, ev)
                 /\ res' = NsCascade(res, ev)
                 /\ rf' = [rf EXCEPT !.items = ItemsAfter(ev),
                                     !.shared = SharedAfter(ev)]
                 /\ nsGone' = IF ev.type = "DELETED"
                              THEN nsGone \cup {ev.obj.name}
                              ELSE IF ev.type = "ADDED"
                              THEN nsGone \ {ev.obj.name}
                              ELSE nsGone
                 /\ UNCHANGED nodes
            ELSE /\ res' = [res EXCEPT ![w] = ApplyToMap(@, ev)]
                 /\ UNCHANGED <<namespaces, nodes, rf, nsGone, track>>
    /\ obs' = IF rf.pc # "idle"
              THEN [ObsTouched EXCEPT !.late = LateAfter(w, Head(streams[w]))]
              ELSE [obs EXCEPT !.done = FALSE]
    /\ UNCHANGED <<cl, opsLeft, lastRefresh, refreshing, ctxSet, cancelled,
                   startPc, wpc, resyncPc, track>>
    /\ Rest

\* the stream ends (the server closes it, the connection drops, or rc.ctx
\* is cancelled): range ends, events not yet received are lost;
\* time.Sleep(time.Second)
WatchClosed(w) ==
    /\ wpc[w] = "stream"
    /\ wpc' = [wpc EXCEPT ![w] = "sleep1"]
    /\ streams' = [streams EXCEPT ![w] = <<>>]
    /\ UNCHANGED <<cl, opsLeft, namespaces, res, nodes, lastRefresh,
                   refreshing, ctxSet, cancelled, startPc, rf, resyncPc,
                   nsGone, obs, track>>
    /\ Rest

\* a watcher that returns after a failed Watch call
WatchWakeGivesUp(w) ==
    /\ wpc[w] \in {"sleep1", "sleep5"}
    /\ wpc' = [wpc EXCEPT ![w] = IF wpc[w] = "sleep5" THEN "done" ELSE "top"]
    /\ UNCHANGED <<cl, opsLeft, namespaces, res, nodes, lastRefresh,
                   refreshing, ctxSet, cancelled, startPc, rf, streams,
                   resyncPc, nsGone, obs, track>>
    /\ Rest

\* the sleep ends: back to the top of the for loop
WatchWake(w) ==
    /\ wpc[w] \in {"sleep1", "sleep5"}
    /\ wpc' = [wpc EXCEPT ![w] = "top"]
    /\ UNCHANGED <<cl, opsLeft, namespaces, res, nodes, lastRefresh,
                   refreshing, ctxSet, cancelled, startPc, rf, streams,
                   resyncPc, nsGone, obs, track>>
    /\ Rest


(***************************************************************************)
(* Refresh and refreshNamespace. A list call and the locked write of its   *)
(* result are two steps: watch events can be applied in between.           *)
(***************************************************************************)
RfIdle == [pc |-> "idle", owner |-> "none", items |-> <<>>, shared |-> FALSE,
           i |-> 0, j |-> 0, ns |-> "-", got |-> <<>>]

ObsFresh == IF track THEN [ObsTouched EXCEPT !.clean = TRUE] ELSE ObsTouched

\* a Start that drops the error of Refresh
RfReturnDropsErr(err) ==
    /\ refreshing' = FALSE
    /\ rf' = RfIdle
    /\ CASE rf.owner = "start" ->
              /\ startPc' = "spawn"
              /\ UNCHANGED resyncPc
         [] rf.owner = "resync" ->
              /\ resyncPc' = "wait"
              /\ UNCHANGED startPc
         [] OTHER -> UNCHANGED <<startPc, resyncPc>>

\* Refresh returns to its caller (defer rc.refreshing.Store(false)):
\* Start goes on with 'if err != nil { return err }', backgroundRefresh
\* drops the result and waits for the next tick
RfReturn(err) ==
    /\ refreshing' = FALSE
    /\ rf' = RfIdle
    /\ CASE rf.owner = "start" ->
              /\ startPc' = IF err THEN "returnedErr" ELSE "spawn"
              /\ UNCHANGED resyncPc
         [] rf.owner = "resync" ->
              /\ resyncPc' = "wait"
              /\ UNCHANGED startPc
         [] OTHER -> UNCHANGED <<startPc, resyncPc>>

\* a Refresh that enters the body whatever the flag says
RfEnterAlways(owner) ==
    /\ refreshing' = TRUE
    /\ rf' = [RfIdle EXCEPT !.pc = "listNs", !.owner = owner]
    /\ obs' = ObsFresh

\* if !rc.refreshing.CompareAndSwap(false, true) { return nil }
RfEnter(owner) ==
    /\ ~refreshing
    /\ refreshing' = TRUE
    /\ rf' = [RfIdle EXCEPT !.pc = "listNs", !.owner = owner]
    /\ obs' = ObsFresh

\* a list call fails when rc.ctx is done, or when the API server does
ListFails(ok) == cancelled \/ ~ok

\* nsList, err := ...Namespaces().List(ctx, ...); if err != nil { return .. }
RfListNs ==
    /\ rf.pc = "listNs"
    /\ \E ok \in BOOLEAN :
         IF ListFails(ok)
         THEN /\ RfReturn(TRUE)
              /\ obs' = ObsTouched
         ELSE /\ rf' = [rf EXCEPT !.pc = "writeNs",
                          !.got = SortedSeq(cl["namespaces"][Cluster])]
              /\ obs' = IF obs.clean
                        THEN [obs EXCEPT !.ns = cl["namespaces"][Cluster]]
                        ELSE obs
              /\ UNCHANGED <<refreshing, startPc, resyncPc, track>>
    /\ UNCHANGED <<cl, opsLeft, namespaces, res, nodes, lastRefresh, ctxSet,
                   cancelled, wpc, streams, nsGone, track>>
    /\ Rest

\* rc.mu.Lock(); rc.namespaces = nsList.Items; rc.mu.Unlock()
RfWriteNs ==
    /\ MuFree
    /\ rf.pc = "writeNs"
    /\ namespaces' = rf.got
    /\ rf' = [rf EXCEPT !.pc = "nsLoop", !.items = rf.got, !.shared = TRUE,
                        !.i = 1, !.got = <<>>]
    /\ UNCHANGED <<cl, opsLeft, res, nodes, lastRefresh, refreshing, ctxSet,
                   cancelled, startPc, wpc, streams, resyncPc, nsGone, obs, track>>
    /\ Rest

\* for _, ns := range nsList.Items { rc.refreshNamespace(ctx, ns.Name) }:
\* the element is read without the lock from the array rc.namespaces shares
RfNextNs ==
    /\ rf.pc = "nsLoop"
    /\ rf' = IF rf.i > Len(rf.items)
             THEN [rf EXCEPT !.pc = "listNodes", !.ns = "-"]
             ELSE [rf EXCEPT !.pc = "listK", !.ns = rf.items[rf.i].name,
                             !.j = 1]
    /\ UNCHANGED <<cl, opsLeft, namespaces, res, nodes, lastRefresh,
                   refreshing, ctxSet, cancelled, startPc, wpc, streams,
                   resyncPc, nsGone, obs, track>>
    /\ Rest

\* after the list (and write) of kind j of namespace i
RfAdvance(r) ==
    IF r.j < Len(KindSeq)
    THEN [r EXCEPT !.pc = "listK", !.j = r.j + 1, !.got = <<>>]
    ELSE [r EXCEPT !.pc = "nsLoop", !.i = r.i + 1, !.j = 0, !.got = <<>>]

\* podsList, err := ...Pods(namespace).List(ctx, ...); if err == nil {..}
RfListK ==
    /\ rf.pc = "listK"
    /\ \E ok \in BOOLEAN :
         IF ListFails(ok)
         THEN /\ rf' = RfAdvance(rf)
              /\ obs' = ObsTouched
         ELSE /\ rf' = [rf EXCEPT !.pc = "writeK",
                          !.got = SortedSeq(cl[KindSeq[rf.j]][rf.ns])]
              /\ obs' = IF obs.clean
                        THEN [obs EXCEPT !.objs[KindSeq[rf.j]][rf.ns] =
                                            cl[KindSeq[rf.j]][rf.ns]]
                        ELSE obs
    /\ UNCHANGED <<cl, opsLeft, namespaces, res, nodes, lastRefresh,
                   refreshing, ctxSet, cancelled, startPc, wpc, streams,
                   resyncPc, nsGone, track>>
    /\ Rest

\* rc.mu.Lock(); rc.pods[namespace] = podsList.Items; rc.mu.Unlock()
RfWriteK ==
    /\ MuFree
    /\ rf.pc = "writeK"
    /\ res' = [res EXCEPT ![KindSeq[rf.j]] = MapSet(@, rf.ns, rf.got)]
    /\ rf' = RfAdvance(rf)
    /\ obs' = [obs EXCEPT !.late = {}]
    /\ UNCHANGED <<cl, opsLeft, namespaces, nodes, lastRefresh, refreshing,
                   ctxSet, cancelled, startPc, wpc, streams, resyncPc,
                   nsGone, track>>
    /\ Rest

\* nodesList, err := ...Nodes().List(ctx, ...)
RfListNodes ==
    /\ rf.pc = "listNodes"
    /\ \E ok \in BOOLEAN :
         IF ListFails(ok)
         THEN /\ rf' = [rf EXCEPT !.pc = "stamp"]
              /\ obs' = ObsTouched
         ELSE /\ rf' = [rf EXCEPT !.pc = "writeNodes",
                          !.got = SortedSeq(cl["nodes"][Cluster])]
              /\ obs' = IF obs.clean
                        THEN [obs EXCEPT !.nodes = cl["nodes"][Cluster]]
                        ELSE obs
    /\ UNCHANGED <<cl, opsLeft, namespaces, res, nodes, lastRefresh,
                   refreshing, ctxSet, cancelled, startPc, wpc, streams,
                   resyncPc, nsGone, track>>
    /\ Rest

\* if err == nil { rc.mu.Lock(); rc.nodes = nodesList.Items; rc.mu.Unlock() }
RfWriteNodes ==
    /\ MuFree
    /\ rf.pc = "writeNodes"
    /\ nodes' = rf.got
    /\ rf' = [rf EXCEPT !.pc = "stamp", !.got = <<>>]
    /\ UNCHANGED <<cl, opsLeft, namespaces, res, lastRefresh, refreshing,
                   ctxSet, cancelled, startPc, wpc, streams, resyncPc,
                   nsGone, obs, track>>
    /\ Rest

\* rc.mu.Lock(); rc.lastRefresh = time.Now(); rc.mu.Unlock(); return nil
RfStamp ==
    /\ MuFree
    /\ rf.pc = "stamp"
    /\ lastRefresh' = 1
    /\ RfReturn(FALSE)
    /\ obs' = [obs EXCEPT !.done = obs.clean]
    /\ UNCHANGED <<cl, opsLeft, namespaces, res, nodes, ctxSet, cancelled,
                   wpc, streams, nsGone, track>>
    /\ Rest

RefreshStep ==
    \/ RfListNs
    \/ RfWriteNs
    \/ RfNextNs
    \/ RfListK
    \/ RfWriteK
    \/ RfListNodes
    \/ RfWriteNodes
    \/ RfStamp

(***************************************************************************)
(* Start, Stop, backgroundRefresh, IsReady and the reads                   *)
(***************************************************************************)
\* rc.ctx, rc.cancel = context.WithCancel(ctx)
StartCall ==
    /\ startPc = "idle"
    /\ startPc' = "callRefresh"
    /\ ctxSet' = TRUE
    /\ cancelled' = FALSE
    /\ UNCHANGED <<cl, opsLeft, namespaces, res, nodes, lastRefresh,
                   refreshing, rf, wpc, streams, resyncPc, nsGone, obs, track>>
    /\ Rest

\* if err := rc.Refresh(); err != nil { return err }
StartRefresh ==
    /\ startPc = "callRefresh"
    /\ RfEnter("start")
    /\ startPc' = "inRefresh"
    /\ UNCHANGED <<cl, opsLeft, namespaces, res, nodes, lastRefresh, ctxSet,
                   cancelled, wpc, streams, resyncPc, nsGone, track>>
    /\ Rest

\* go rc.watchNamespaces() ... go rc.backgroundRefresh(...); return nil
StartSpawn ==
    /\ startPc = "spawn"
    /\ startPc' = "returnedOk"
    /\ wpc' = [w \in Watchers |-> "top"]
    /\ resyncPc' = "wait"
    /\ UNCHANGED <<cl, opsLeft, namespaces, res, nodes, lastRefresh,
                   refreshing, ctxSet, cancelled, rf, streams, nsGone, obs, track>>
    /\ Rest

\* a Stop that forgets the cache was filled
StopResetsReady ==
    /\ cancelled' = (cancelled \/ ctxSet)
    /\ lastRefresh' = 0
    /\ UNCHANGED <<cl, opsLeft, namespaces, res, nodes, refreshing, ctxSet,
                   startPc, rf, wpc, streams, resyncPc, nsGone, obs, track>>
    /\ Rest

\* if rc.cancel != nil { rc.cancel() }
Stop ==
    /\ cancelled' = (cancelled \/ ctxSet)
    /\ UNCHANGED <<cl, opsLeft, namespaces, res, nodes, lastRefresh,
                   refreshing, ctxSet, startPc, rf, wpc, streams, resyncPc,
                   nsGone, obs, track>>
    /\ Rest

\* main's one call of rc.Stop(), on a goroutine other than Start's:
\* if rc.cancel != nil { rc.cancel() }
StopCall ==
    /\ ~stopped
    /\ stopped' = TRUE
    /\ cancelled' = (cancelled \/ ctxSet)
    /\ UNCHANGED <<cl, opsLeft, namespaces, res, nodes, lastRefresh,
                   refreshing, ctxSet, startPc, rf, wpc, streams, resyncPc,
                   nsGone, obs, track>>
    /\ UNCHANGED <<rcall, fnVars, uiVars, rdVars, parseVars, histVars>>

\* a call of the exported rc.Refresh() by a goroutine other than Start and
\* backgroundRefresh: 'if !rc.refreshing.CompareAndSwap(false, true)
\* { return nil }' returns at once while a Refresh runs, and enters the
\* body otherwise. The caller has a cache that Start was called on, so
\* that 'ctx = rc.ctx' is the context Stop cancels
RefreshCall ==
    /\ rcall = "idle"
    /\ ctxSet
    /\ IF refreshing
       THEN /\ rcall' = "returnedNil"
            /\ UNCHANGED cacheVars
       ELSE /\ RfEnter("call")
            /\ rcall' = "inRefresh"
            /\ UNCHANGED <<cl, opsLeft, namespaces, res, nodes, lastRefresh,
                           ctxSet, cancelled, startPc, wpc, streams, resyncPc,
                           nsGone, track>>
    /\ UNCHANGED <<stopped, fnVars, uiVars, rdVars, parseVars, histVars>>

\* the caller of rc.Refresh() has its result: the nil of a skipped call,
\* or the result of the body once 'defer rc.refreshing.Store(false)' ran
RefreshCallReturn ==
    /\ \/ rcall = "returnedNil"
       \/ rcall = "inRefresh" /\ rf.owner # "call"
    /\ rcall' = "idle"
    /\ UNCHANGED <<stopped, cacheVars, fnVars, uiVars, rdVars, parseVars,
                   histVars>>

\* case <-ticker.C: _ = rc.Refresh()
ResyncTick ==
    /\ resyncPc = "wait"
    /\ RfEnter("resync")
    /\ resyncPc' = "inRefresh"
    /\ UNCHANGED <<cl, opsLeft, namespaces, res, nodes, lastRefresh, ctxSet,
                   cancelled, startPc, wpc, streams, nsGone, track>>
    /\ Rest

\* case <-rc.ctx.Done(): return
ResyncExit ==
    /\ resyncPc = "wait"
    /\ cancelled
    /\ resyncPc' = "done"
    /\ UNCHANGED <<cl, opsLeft, namespaces, res, nodes, lastRefresh,
                   refreshing, ctxSet, cancelled, startPc, rf, wpc, streams,
                   nsGone, obs, track>>
    /\ Rest

\* ready as soon as the namespaces are listed
IsReadyOnNamespaces == namespaces # <<>>

\* return !rc.lastRefresh.IsZero()
IsReady == lastRefresh # 0

\* GetPods(namespace) and its copies: a copy of the bucket, or empty
ReadBucket(k, ns) == MapGet(res[k], ns)

\* GetNamespaces()
ReadNamespaces == [i \in 1..Len(namespaces) |-> namespaces[i].name]

(***************************************************************************)
(* The cache's specification                                               *)
(***************************************************************************)
MkCluster(nss, objs, nds) ==
    [k \in AllKinds |-> [s \in Scopes |->
        IF k = "namespaces" /\ s = Cluster THEN {Rec(n, 0) : n \in nss}
        ELSE IF k = "nodes" /\ s = Cluster THEN {Rec(n, 0) : n \in nds}
        ELSE IF k \in NsKinds /\ s \in nss THEN {Rec(n, 0) : n \in objs}
        ELSE {}]]

\* the cluster the program is started against
InitClusters == {MkCluster({"n1"}, ObjNames, NodeNames),
                 MkCluster({}, {}, {})}

\* NewResourceCache: empty maps, nil slices, zero lastRefresh
CacheInit(budget, tracked) ==
    /\ track = tracked
    /\ cl \in InitClusters
    /\ opsLeft = budget
    /\ namespaces = <<>>
    /\ res = [k \in NsKinds |-> EmptyMap]
    /\ nodes = <<>>
    /\ lastRefresh = 0
    /\ refreshing = FALSE
    /\ ctxSet = FALSE
    /\ cancelled = FALSE
    /\ startPc = "idle"
    /\ rf = RfIdle
    /\ wpc = [w \in Watchers |-> "unspawned"]
    /\ streams = [w \in Watchers |-> <<>>]
    /\ resyncPc = "unspawned"
    /\ nsGone = {}
    /\ obs = ObsTouched

WatcherStep(w) ==
    \/ WatchTop(w)
    \/ WatchOpenOk(w)
    \/ WatchOpenFail(w)
    \/ WatchEvent(w)
    \/ WatchClosed(w)
    \/ WatchWake(w)

CacheNext ==
    \/ ClusterStep
    \/ StartCall
    \/ StartRefresh
    \/ StartSpawn
    \/ Stop
    \/ RefreshStep
    \/ ResyncTick
    \/ ResyncExit
    \/ \E w \in Watchers : WatcherStep(w)

(***************************************************************************)
(* The read methods (GetNamespaces, GetPods and its copies, Containers),   *)
(* step by step: RLock, the copy loop over the bucket, RUnlock.            *)
(***************************************************************************)
RdIdle == [pc |-> "idle", k |-> "namespaces", ns |-> Cluster, n |-> 0,
           out |-> <<>>, snap |-> <<>>]
RdInit == rd = RdIdle /\ held = <<>>

\* the zero value make() fills the result with
ZeroRec == Rec("", 0)

\* rc.namespaces, or rc.pods[namespace] ('if pods, ok := ...' else empty)
Bucket(k, ns) == IF k = "namespaces" THEN namespaces ELSE ReadBucket(k, ns)

\* rc.mu.RLock(); result := make([]T, len(bucket))
ReadLock(k, ns) ==
    /\ rd.pc = "idle"
    /\ rd' = [pc |-> "copy", k |-> k, ns |-> ns, n |-> Len(Bucket(k, ns)),
              out |-> <<>>, snap |-> Bucket(k, ns)]
    /\ UNCHANGED <<held, cacheVars, fnVars, uiVars, parseVars, histVars,
                   callVars>>

\* copy(result, bucket) / for i, ns := range rc.namespaces: one element
ReadCopy ==
    /\ rd.pc = "copy"
    /\ Len(rd.out) < rd.n
    /\ LET i == Len(rd.out) + 1
           b == Bucket(rd.k, rd.ns)
       IN  rd' = [rd EXCEPT !.out = Append(@, IF i <= Len(b) THEN b[i]
                                              ELSE ZeroRec)]
    /\ UNCHANGED <<held, cacheVars, fnVars, uiVars, parseVars, histVars,
                   callVars>>

\* defer rc.mu.RUnlock(); return result
ReadUnlock ==
    /\ rd.pc = "copy"
    /\ Len(rd.out) = rd.n
    /\ held' = rd.out
    /\ rd' = [rd EXCEPT !.pc = "idle"]
    /\ UNCHANGED <<cacheVars, fnVars, uiVars, parseVars, histVars, callVars>>

ReaderStep ==
    \/ \E ns \in NsNames : ReadLock("pods", ns)
    \/ ReadLock("namespaces", Cluster)
    \/ ReadCopy
    \/ ReadUnlock

(***************************************************************************)
(* Command lines. A line is what strings.TrimSpace and strings.Fields see  *)
(* of it: whether it starts with "!", and the whitespace-separated tokens  *)
(* of the rest.                                                            *)
(***************************************************************************)
Line(b, t) == [bang |-> b, toks |-> t]
NoLine == Line(FALSE, <<>>)

Words == {"kubectl", "delete", "drain", "cordon", "rollout", "get", "pods",
          "--force", "rm"}
\* longest line given to the classifier, in tokens
MaxTokens == 3

RECURSIVE SeqsUpTo(_, _)
SeqsUpTo(S, n) ==
    IF n = 0 THEN {<<>>}
    ELSE LET shorter == SeqsUpTo(S, n - 1)
         IN  shorter \cup {Append(t, w) : t \in shorter, w \in S}

\* IsDestructive(command): the verb is args[0]
IsDestructive(l) ==
    IF l.bang THEN FALSE
    ELSE IF l.toks = <<>> THEN FALSE
    ELSE IF l.toks[1] \in {"delete", "drain", "cordon", "rollout"} THEN TRUE
    ELSE \E i \in 1..Len(l.toks) : l.toks[i] = "--force"

\* the classifier applied to the line
Classify ==
    /\ verdict = <<>>
    /\ verdict' = <<IsDestructive(line)>>
    /\ UNCHANGED <<line, regVars, compVars, cacheVars, uiVars, rdVars,
                   parseVars, histVars, callVars>>

\* the next line is given
NextLine ==
    /\ verdict # <<>>
    /\ line' \in {Line(b, t) : b \in BOOLEAN, t \in SeqsUpTo(Words, MaxTokens)}
    /\ verdict' = <<>>
    /\ UNCHANGED <<regVars, compVars, cacheVars, uiVars, rdVars, parseVars,
                   histVars, callVars>>

(***************************************************************************)
(* The command registry (NewRegistry, MatchCommand). A word is the         *)
(* sequence of its characters, so that strings.Join is computed as it is.  *)
(***************************************************************************)
\* the tokens of the grammar's paths and of the command line
PathWords == {<<"a">>, <<"b">>, <<"a", "b">>}

\* longest path, most commands of a grammar, longest token list
MaxPath == 2
MaxCommands == 3
MaxMatchTokens == 3

\* strings.Join(elems, " ")
RECURSIVE Join(_)
Join(elems) ==
    IF elems = <<>> THEN <<>>
    ELSE IF Len(elems) = 1 THEN elems[1]
    ELSE elems[1] \o <<" ">> \o Join(Tail(elems))

NoFlags == [x \in {} |-> [primary |-> "", aliases |-> <<>>]]
NoAliases == [x \in {} |-> ""]
NoCommands == [x \in {} |-> <<>>]

\* CommandSpec (its path and its flags), and CommandRuntime
CommandSpec(path, flags) == [path |-> path, flags |-> flags]
CommandRuntime(spec, a2p) ==
    [spec |-> spec, key |-> Join(spec.path), aliasToPrimary |-> a2p]
NoRuntime == CommandRuntime(CommandSpec(<<>>, NoFlags), NoAliases)

\* the registry does not touch the rest of the program
RegRest ==
    UNCHANGED <<line, verdict, compVars, cacheVars, uiVars, rdVars, parseVars,
                histVars, callVars>>

\* for i := range root.Commands: spec := &root.Commands[i]; rt := ...
RegCommand ==
    /\ bi \in 1..Len(root)
    /\ rt = NoRuntime
    /\ rt' = CommandRuntime(root[bi], NoAliases)
    /\ todo' = DOMAIN root[bi].flags
    /\ bi' = bi
    /\ UNCHANGED <<root, cmds, prev, tokens, matched>>
    /\ RegRest

\* the three assignments of the loop body, in their order
FlagEntries(a2p, primary, flag) ==
    LET a1 == MapSet(a2p, flag.primary, primary)
        RECURSIVE WithAliases(_, _)
        WithAliases(m, i) ==
            IF i > Len(flag.aliases) THEN m
            ELSE WithAliases(MapSet(m, flag.aliases[i], primary), i + 1)
        a2 == WithAliases(a1, 1)
    IN  IF primary # flag.primary THEN MapSet(a2, primary, primary) ELSE a2

\* for primary, flag := range spec.Flags: a Go map is ranged over in an
\* order the runtime picks
RegFlag(primary) ==
    /\ bi \in 1..Len(root)
    /\ rt # NoRuntime
    /\ primary \in todo
    /\ todo' = todo \ {primary}
    /\ rt' = [rt EXCEPT !.aliasToPrimary =
                 FlagEntries(@, primary, rt.spec.flags[primary])]
    /\ UNCHANGED <<root, cmds, bi, prev, tokens, matched>>
    /\ RegRest

\* cmds[key] = rt; the loop goes on
RegStore ==
    /\ bi \in 1..Len(root)
    /\ rt # NoRuntime
    /\ todo = {}
    /\ cmds' = MapSet(cmds, rt.key, rt)
    /\ rt' = NoRuntime
    /\ bi' = bi + 1
    /\ UNCHANGED <<root, todo, prev, tokens, matched>>
    /\ RegRest

\* return &Registry{Commands: cmds}
Built == bi = Len(root) + 1

\* MatchCommand(tokens): for i := len(tokens); i > 0; i--
RECURSIVE MatchFrom(_, _, _)
MatchFrom(r, toks, i) ==
    IF i = 0 THEN [cmd |-> NoRuntime, n |-> 0]
    ELSE LET key == Join(SubSeq(toks, 1, i))
         IN  IF key \in DOMAIN r THEN [cmd |-> r[key], n |-> i]
             ELSE MatchFrom(r, toks, i - 1)

\* a match that stops at the shortest path
MatchCommandShortest(r, toks) ==
    LET hits == {i \in 1..Len(toks) : Join(SubSeq(toks, 1, i)) \in DOMAIN r}
    IN  IF hits = {} THEN [cmd |-> NoRuntime, n |-> 0]
        ELSE LET i == CHOOSE x \in hits : \A y \in hits : x <= y
             IN  [cmd |-> r[Join(SubSeq(toks, 1, i))], n |-> i]

MatchCommand(r, toks) ==
    IF Len(toks) = 0 THEN [cmd |-> NoRuntime, n |-> 0]
    ELSE MatchFrom(r, toks, Len(toks))

\* a call of MatchCommand on the built registry
Match(toks) ==
    /\ Built
    /\ tokens' = toks
    /\ matched' = <<MatchCommand(cmds, toks)>>
    /\ UNCHANGED <<root, cmds, bi, rt, todo, prev>>
    /\ RegRest

\* the same commands given again, in the order perm: NewRegistry once more
Rebuild(perm) ==
    /\ Built
    /\ prev = <<>>
    /\ prev' = <<cmds>>
    /\ root' = [i \in 1..Len(root) |-> root[perm[i]]]
    /\ cmds' = NoCommands
    /\ bi' = 1
    /\ rt' = NoRuntime
    /\ todo' = {}
    /\ UNCHANGED <<tokens, matched>>
    /\ RegRest

\* the grammars: paths of one to MaxPath tokens, up to MaxCommands commands
SeqsFromTo(S, lo, hi) == {t \in SeqsUpTo(S, hi) : Len(t) >= lo}

Paths == SeqsFromTo(PathWords, 1, MaxPath)
MatchGrammars ==
    SeqsUpTo({CommandSpec(pth, NoFlags) : pth \in Paths}, MaxCommands)

\* grammars with flags: keys of the flags object, descriptors, commands
FlagKeys == {"--ns", "-o"}
FlagDescs == {[primary |-> pr, aliases |-> al] :
                 pr \in FlagKeys, al \in {<<>>, <<"-n">>}}
FlagMaps == UNION {[K -> FlagDescs] : K \in SUBSET FlagKeys}
MaxFlagCommands == 2
FlagGrammars ==
    SeqsUpTo({CommandSpec(<<w>>, fl) : w \in {<<"a">>, <<"b">>}, fl \in FlagMaps},
             MaxFlagCommands)

Perms(n) == {f \in [1..n -> 1..n] : \A i, j \in 1..n : i # j => f[i] # f[j]}

(***************************************************************************)
(* The completion engine (Completer.Complete). Strings the engine splits,  *)
(* compares or takes prefixes of are sequences of characters; a            *)
(* description is the sequence of the pieces it is formatted from. The     *)
(* engine's debug log is written and never read, and is left out.          *)
(***************************************************************************)
\* the bytes of the characters used, for Go's < on strings
CharCode ==
    (" " :> 32) @@ ("-" :> 45) @@ ("/" :> 47) @@ ("A" :> 65) @@
    [c \in {"a", "b", "c", "d", "e", "f", "g", "h", "i", "j", "k", "l", "m",
            "n", "o", "p", "q", "r", "s", "t", "u", "v", "w", "x", "y", "z"} |->
        96 + (CHOOSE i \in 1..26 :
                <<"a", "b", "c", "d", "e", "f", "g", "h", "i", "j", "k", "l", "m",
                  "n", "o", "p", "q", "r", "s", "t", "u", "v", "w", "x", "y",
                  "z">>[i] = c)]

\* a < b on strings
RECURSIVE StrLess(_, _)
StrLess(a, b) ==
    IF b = <<>> THEN FALSE
    ELSE IF a = <<>> THEN TRUE
    ELSE IF a[1] = b[1] THEN StrLess(Tail(a), Tail(b))
    ELSE CharCode[a[1]] < CharCode[b[1]]

\* strings.HasPrefix, strings.Contains
HasPrefix(s, prefix) ==
    Len(prefix) <= Len(s) /\ SubSeq(s, 1, Len(prefix)) = prefix
Contains(s, substr) ==
    \E i \in 0..(Len(s) - Len(substr)) : SubSeq(s, i + 1, i + Len(substr)) = substr

IsSpace(c) == c \in {" ", "\t"}

\* shellSplit: strings.Fields
Fields(s) ==
    LET RECURSIVE Scan(_, _, _)
        Scan(i, cur, acc) ==
            LET done == IF cur = <<>> THEN acc ELSE Append(acc, cur)
            IN  IF i > Len(s) THEN done
                ELSE IF IsSpace(s[i]) THEN Scan(i + 1, <<>>, done)
                ELSE Scan(i + 1, Append(cur, s[i]), acc)
    IN  Scan(1, <<>>, <<>>)

Kubectl == <<"k", "u", "b", "e", "c", "t", "l">>
normalizeKubectl(toks) ==
    IF Len(toks) > 0 /\ toks[1] = Kubectl THEN Tail(toks) ELSE toks

isFlagToken(tok) == HasPrefix(tok, <<"-">>)

Suggestion(value, kind, description, score) ==
    [value |-> value, kind |-> kind, description |-> description,
     score |-> score]

\* the comparison of sortSuggestions
SuggestionLess(x, y) ==
    IF x.score = y.score THEN StrLess(x.value, y.value)
    ELSE x.score > y.score

\* sort.Slice on a short slice is an insertion sort: every element moves
\* left while it is less than its left neighbour
sortSuggestions(s) ==
    LET RECURSIVE Insert(_, _)
        Insert(t, x) ==
            IF t # <<>> /\ SuggestionLess(x, t[Len(t)])
            THEN Append(Insert(SubSeq(t, 1, Len(t) - 1), x), t[Len(t)])
            ELSE Append(t, x)
        RECURSIVE Sort(_, _)
        Sort(i, acc) == IF i > Len(s) THEN acc ELSE Sort(i + 1, Insert(acc, s[i]))
    IN  Sort(1, <<>>)

\* sort.Strings on a set of unique strings
SortStrings(S) ==
    CHOOSE t \in [1..Cardinality(S) -> S] :
        \A i, j \in 1..Cardinality(S) : i < j => StrLess(t[i], t[j])

\* scorePrefix
scorePrefix(value, prefix) ==
    IF prefix = <<>> THEN 0
    ELSE IF HasPrefix(value, prefix) THEN Len(prefix) + 10
    ELSE IF Contains(value, prefix) THEN Len(prefix)
    ELSE 0

\* the orders a range over a Go map with the keys S can take
Orders(S) ==
    {t \in [1..Cardinality(S) -> S] : \A i, j \in 1..Cardinality(S) : i # j => t[i] # t[j]}

\* strings.Split(key, " ")[0]
FirstPart(key) ==
    LET cuts == {i \in 1..Len(key) : key[i] = " "}
    IN  IF cuts = {} THEN key
        ELSE SubSeq(key, 1, (CHOOSE i \in cuts : \A j \in cuts : i <= j) - 1)

\* Registry.TopLevelCommands: the unique first tokens, sorted
TopLevelCommands(reg) == SortStrings({FirstPart(key) : key \in DOMAIN reg})

\* suggestTopLevelCommands
suggestTopLevelCommands(reg, prefix) ==
    LET names == TopLevelCommands(reg)
        keep == SelectSeq(names, LAMBDA name : prefix = <<>> \/ HasPrefix(name, prefix))
    IN  sortSuggestions([i \in 1..Len(keep) |->
            Suggestion(keep[i], "command", <<>>, scorePrefix(keep[i], prefix))])

\* a round that suggests on a prefix match only
SubcommandOfPrefixOnly(path, toks, seen) ==
    LET n == Len(toks)
        exactMatch == \A i \in 1..(n - 1) : path[i] = toks[i]
    IN  IF Len(path) < n \/ ~exactMatch THEN <<>>
        ELSE IF path[n] # toks[n] /\ HasPrefix(path[n], toks[n]) /\ path[n] \notin seen
        THEN <<Suggestion(path[n], "command", <<>>, scorePrefix(path[n], toks[n]))>>
        ELSE <<>>

\* suggestSubcommands: one round of the range over Registry.Commands
SubcommandOf(path, toks, seen) ==
    LET n == Len(toks)
        exactMatch == \A i \in 1..(n - 1) : path[i] = toks[i]
        lastToken == toks[n]
        pathToken == path[n]
    IN  IF Len(path) < n \/ ~exactMatch THEN <<>>
        ELSE IF pathToken = lastToken
        THEN IF Len(path) > n /\ path[n + 1] \notin seen
             THEN <<Suggestion(path[n + 1], "command", <<>>, 50)>>
             ELSE <<>>
        ELSE IF HasPrefix(pathToken, lastToken) /\ pathToken \notin seen
        THEN <<Suggestion(pathToken, "command", <<>>,
                          scorePrefix(pathToken, lastToken))>>
        ELSE <<>>

\* suggestSubcommands, the map ranged over in the order co
suggestSubcommands(reg, toks, co) ==
    LET RECURSIVE Range(_, _)
        Range(i, out) ==
            IF i > Len(co) THEN out
            ELSE LET seen == {out[j].value : j \in 1..Len(out)}
                 IN  Range(i + 1,
                           out \o SubcommandOf(reg[co[i]].spec.path, toks, seen))
    IN  IF Len(toks) = 0 THEN <<>> ELSE sortSuggestions(Range(1, <<>>))

\* the ClusterCache the completer asks: nil is <<>>, a snapshot is <<c>>
CacheNamespaces(c) == c.namespaces
CacheResourceTypes(c) == c.resourceTypes
CacheResourceTypesForCommand(c, path) ==
    IF path \in DOMAIN c.typesFor THEN c.typesFor[path] ELSE <<>>
CacheResourceNames(c, kind, ns) ==
    IF <<kind, ns>> \in DOMAIN c.names THEN c.names[<<kind, ns>>] ELSE <<>>
CacheContainers(c, ns, kind, name) ==
    IF <<ns, kind, name>> \in DOMAIN c.containers
    THEN c.containers[<<ns, kind, name>>] ELSE <<>>

\* TokenDescriptor, FlagDescriptor (after is <<>> for nil), their zero values
TokenDescriptor(kind, role, allowed) ==
    [kind |-> kind, role |-> role, allowed |-> allowed]
FlagDescriptor(primary, aliases, role, required, after, description) ==
    [primary |-> primary, aliases |-> aliases, role |-> role,
     required |-> required, after |-> after, description |-> description]
ZeroFlag == FlagDescriptor(<<>>, <<>>, "", FALSE, <<>>, <<>>)

\* cmd.Spec.Flags[primary]
FlagOf(cmd, primary) ==
    IF primary \in DOMAIN cmd.spec.flags THEN cmd.spec.flags[primary]
    ELSE ZeroFlag

\* the tokens a flag at args[i] takes: itself, and its value when it has one
FlagWidth(cmd, args, i) ==
    IF FlagOf(cmd, cmd.aliasToPrimary[args[i]]).after # <<>> /\ i < Len(args)
    THEN 2 ELSE 1

\* fmt.Sprintf("%s in %s", kind, ns)
InDescription(kind, ns) == kind \o <<" in ">> \o ns

\* suggestEnumValues
suggestEnumValues(values, desc) ==
    sortSuggestions([i \in 1..Len(values) |->
        Suggestion(values[i], "flag-value", desc, 40)])

\* suggestNamespaces
suggestNamespaces(cache, ctx) ==
    IF cache = <<>> THEN <<>>
    ELSE LET names == CacheNamespaces(cache[1])
         IN  sortSuggestions([i \in 1..Len(names) |->
                 Suggestion(names[i], "namespace", <<"Namespace">>,
                     IF ctx.ns # <<>> /\ names[i] = ctx.ns THEN 60 ELSE 50)])

\* suggestContainers
suggestContainers(cache, ctx, kind, name, ns) ==
    IF cache = <<>> THEN <<>>
    ELSE LET n == IF ns = <<>> THEN ctx.ns ELSE ns
             names == CacheContainers(cache[1], n, kind, name)
         IN  sortSuggestions([i \in 1..Len(names) |->
                 Suggestion(names[i], "container", <<"Container">>, 45)])

\* suggestResourceTypes
suggestResourceTypes(cache, cmd, td) ==
    LET types ==
            IF Len(td.allowed) > 0 THEN td.allowed
            ELSE IF cache # <<>>
            THEN LET forCmd == CacheResourceTypesForCommand(cache[1], cmd.spec.path)
                 IN  IF Len(forCmd) > 0 THEN forCmd
                     ELSE CacheResourceTypes(cache[1])
            ELSE <<>>
    IN  sortSuggestions([i \in 1..Len(types) |->
            Suggestion(types[i], "resource-type", <<"Resource type">>, 55)])

\* suggestResourceNames
suggestResourceNames(cache, ctx, kind, ns) ==
    IF cache = <<>> THEN <<>>
    ELSE LET n == IF ns = <<>> THEN ctx.ns ELSE ns
             names == CacheResourceNames(cache[1], kind, n)
         IN  sortSuggestions([i \in 1..Len(names) |->
                 Suggestion(names[i], "resource-name", InDescription(kind, n), 50)])

\* inferResourceKindFromArgs: the TYPE of the last TYPE/NAME argument
inferResourceKindFromArgs(cmd, args) ==
    LET RECURSIVE Walk(_)
        Walk(i) ==
            IF i < 1 THEN <<>>
            ELSE IF isFlagToken(args[i])
            THEN IF args[i] \notin DOMAIN cmd.aliasToPrimary THEN Walk(i - 1)
                 ELSE Walk(i - FlagWidth(cmd, args, i))
            ELSE IF Contains(args[i], <<"/">>)
            THEN LET cut == CHOOSE k \in 1..Len(args[i]) :
                              /\ args[i][k] = "/"
                              /\ \A j \in 1..(k - 1) : args[i][j] # "/"
                 IN  SubSeq(args[i], 1, cut - 1)
            ELSE Walk(i - 1)
    IN  Walk(Len(args))

\* getFirstNonFlagArg
getFirstNonFlagArg(args) ==
    LET RECURSIVE Walk(_)
        Walk(i) ==
            IF i > Len(args) THEN <<>>
            ELSE IF ~isFlagToken(args[i]) THEN args[i]
            ELSE IF i < Len(args) /\ ~isFlagToken(args[i + 1]) THEN Walk(i + 2)
            ELSE Walk(i + 1)
    IN  Walk(1)

\* extractNamespaceFromArgs: the value after the first -n or --namespace
\* that has one
DashN == <<"-", "n">>
DashNamespace == <<"-", "-", "n", "a", "m", "e", "s", "p", "a", "c", "e">>
extractNamespaceFromArgs(args) ==
    LET hits == {i \in 1..(Len(args) - 1) :
                    /\ args[i] \in {DashN, DashNamespace}
                    /\ ~isFlagToken(args[i + 1])}
    IN  IF hits = {} THEN <<>>
        ELSE args[(CHOOSE i \in hits : \A j \in hits : i <= j) + 1]

\* a parseUsedFlags that finds no flag used
parseUsedFlagsNone(cmd, args) == {}

\* parseUsedFlags
parseUsedFlags(cmd, args) ==
    LET RECURSIVE Walk(_, _)
        Walk(i, used) ==
            IF i > Len(args) THEN used
            ELSE IF ~isFlagToken(args[i]) THEN Walk(i + 1, used)
            ELSE IF args[i] \notin DOMAIN cmd.aliasToPrimary THEN Walk(i + 1, used)
            ELSE Walk(i + FlagWidth(cmd, args, i),
                      used \cup {cmd.aliasToPrimary[args[i]]})
    IN  Walk(1, {})

\* a count that takes the token being typed as a satisfied positional
countEveryPositional(positionals, cmd, args, hasTrailingSpace) ==
    LET RECURSIVE Walk(_, _)
        Walk(i, posIndex) ==
            IF i > Len(args) \/ posIndex >= Len(positionals) THEN posIndex
            ELSE IF isFlagToken(args[i])
            THEN IF args[i] \notin DOMAIN cmd.aliasToPrimary
                 THEN Walk(i + 1, posIndex)
                 ELSE Walk(i + FlagWidth(cmd, args, i), posIndex)
            ELSE Walk(i + 1, posIndex + 1)
    IN  Walk(1, 0)

\* countSatisfiedPositionals
countSatisfiedPositionals(positionals, cmd, args, hasTrailingSpace) ==
    LET RECURSIVE Walk(_, _)
        Walk(i, posIndex) ==
            IF i > Len(args) \/ posIndex >= Len(positionals) THEN posIndex
            ELSE IF isFlagToken(args[i])
            THEN IF args[i] \notin DOMAIN cmd.aliasToPrimary
                 THEN Walk(i + 1, posIndex)
                 ELSE Walk(i + FlagWidth(cmd, args, i), posIndex)
            ELSE IF i = Len(args) /\ ~hasTrailingSpace THEN posIndex
            ELSE Walk(i + 1, posIndex + 1)
    IN  Walk(1, 0)

\* suggestForPositional
suggestForPositional(cache, cmd, ctx, td, args) ==
    LET kind == inferResourceKindFromArgs(cmd, args)
    IN  IF td.kind = "resource-type" THEN suggestResourceTypes(cache, cmd, td)
        ELSE IF td.kind \in {"resource-name", "resource-name-or-selector"}
        THEN IF kind = <<>> /\ Len(args) = 0
             THEN suggestResourceTypes(cache, cmd, td)
             ELSE suggestResourceNames(cache, ctx, kind, ctx.ns)
        ELSE IF td.kind = "namespace" THEN suggestNamespaces(cache, ctx)
        ELSE IF td.kind = "container-name"
        THEN suggestContainers(cache, ctx, kind, <<>>, <<>>)
        ELSE IF td.kind = "output"
        THEN suggestEnumValues(td.allowed, <<"Output format">>)
        ELSE <<>>

\* scoreFlag
scoreFlag(f) ==
    10 + (IF f.required THEN 50 ELSE 0)
       + (IF f.role = "namespace-scope" THEN 40
          ELSE IF f.role \in {"label-selector", "field-selector"} THEN 30
          ELSE IF f.role = "output-format" THEN 20
          ELSE IF f.role = "container-selector" THEN 18
          ELSE 0)
       + (5 - Len(f.primary))

\* suggestPositionalsAndFlags: spec.Flags is ranged over in the order fo
PositionalsAndFlags(cache, cmd, ctx, args, hasTrailingSpace, fo) ==
    LET spec == cmd.spec
        usedFlags == parseUsedFlags(cmd, args)
        posIndex == countSatisfiedPositionals(spec.positionals, cmd, args,
                                              hasTrailingSpace)
        resourceType == getFirstNonFlagArg(args)
        ns == IF extractNamespaceFromArgs(args) = <<>> THEN ctx.ns
              ELSE extractNamespaceFromArgs(args)
        names == CacheResourceNames(cache[1], resourceType, ns)
        positional ==
            IF posIndex < Len(spec.positionals)
            THEN suggestForPositional(cache, cmd, ctx,
                                      spec.positionals[posIndex + 1], args)
            ELSE IF /\ posIndex > 0
                    /\ posIndex = Len(spec.positionals)
                    /\ spec.positionals[1].kind \in {"resource-type", "resource-name"}
                    /\ resourceType # <<>>
                    /\ cache # <<>>
            THEN [i \in 1..Len(names) |->
                     Suggestion(names[i], "resource-name",
                                InDescription(resourceType, ns), 55)]
            ELSE <<>>
        keys == SelectSeq(fo, LAMBDA primary :
                    primary \in DOMAIN spec.flags /\ primary \notin usedFlags)
    IN  positional \o
        [i \in 1..Len(keys) |->
            Suggestion(spec.flags[keys[i]].primary, "flag",
                       spec.flags[keys[i]].description,
                       scoreFlag(spec.flags[keys[i]]))]

\* a suggestPositionalsAndFlags that returns without the sort
suggestPositionalsAndFlagsUnsorted(cache, cmd, ctx, args, hasTrailingSpace, fo) ==
    PositionalsAndFlags(cache, cmd, ctx, args, hasTrailingSpace, fo)

suggestPositionalsAndFlags(cache, cmd, ctx, args, hasTrailingSpace, fo) ==
    sortSuggestions(
        PositionalsAndFlags(cache, cmd, ctx, args, hasTrailingSpace, fo))

\* suggestAfterFlag
suggestAfterFlag(cache, cmd, ctx, args, hasTrailingSpace, fo) ==
    LET flagToken == args[Len(args)]
        flagDesc == FlagOf(cmd, cmd.aliasToPrimary[flagToken])
        td == flagDesc.after[1]
        fallBack == suggestPositionalsAndFlags(cache, cmd, ctx, args,
                                               hasTrailingSpace, fo)
    IN  IF Len(args) = 0 THEN <<>>
        ELSE IF flagToken \notin DOMAIN cmd.aliasToPrimary THEN fallBack
        ELSE IF flagDesc.after = <<>> THEN fallBack
        ELSE IF td.kind = "namespace" THEN suggestNamespaces(cache, ctx)
        ELSE IF td.kind = "output"
        THEN suggestEnumValues(td.allowed, <<"Output format">>)
        ELSE IF td.kind = "selector" THEN <<>>
        ELSE IF td.kind = "container-name"
        THEN suggestContainers(cache, ctx, <<>>, <<>>, <<>>)
        ELSE IF td.kind = "resource-type" THEN suggestResourceTypes(cache, cmd, td)
        ELSE IF td.kind \in {"resource-name", "resource-name-or-selector"}
        THEN suggestResourceNames(cache, ctx,
                                  inferResourceKindFromArgs(cmd, args), ctx.ns)
        ELSE IF td.kind \in {"duration", "other"}
        THEN suggestEnumValues(td.allowed, <<td.role>>)
        ELSE <<>>

\* a Complete that hands the partial value to suggestAfterFlag
CompleteKeepsPartial(reg, cache, ln, cursor, ctx, co, fo) ==
    LET cur == IF cursor < 0 \/ cursor > Len(ln) THEN Len(ln) ELSE cursor
        segment == SubSeq(ln, 1, cur)
        hasTrailingSpace == Len(segment) > 0 /\ IsSpace(segment[Len(segment)])
        toks == normalizeKubectl(Fields(segment))
        m == MatchCommand(reg, toks)
        cmd == m.cmd
        pathLen == m.n
        subcommands == suggestSubcommands(reg, toks, co)
        args == SubSeq(toks, pathLen + 1, Len(toks))
    IN  IF Len(toks) = 0 THEN suggestTopLevelCommands(reg, <<>>)
        ELSE IF pathLen = 0
        THEN IF Len(subcommands) > 0 THEN subcommands
             ELSE suggestTopLevelCommands(reg, toks[1])
        ELSE IF ~hasTrailingSpace /\ pathLen = Len(toks) /\ Len(subcommands) > 0
        THEN subcommands
        ELSE IF /\ ~hasTrailingSpace
                /\ Len(args) >= 2
                /\ isFlagToken(args[Len(args) - 1])
                /\ ~isFlagToken(args[Len(args)])
        THEN suggestAfterFlag(cache, cmd, ctx, args, TRUE, fo)
        ELSE IF hasTrailingSpace /\ Len(args) > 0 /\ isFlagToken(args[Len(args)])
        THEN suggestAfterFlag(cache, cmd, ctx, args, hasTrailingSpace, fo)
        ELSE suggestPositionalsAndFlags(cache, cmd, ctx, args,
                                        hasTrailingSpace, fo)

\* Completer.Complete, with the orders co and fo of its ranges over
\* Registry.Commands and spec.Flags
Complete(reg, cache, ln, cursor, ctx, co, fo) ==
    LET cur == IF cursor < 0 \/ cursor > Len(ln) THEN Len(ln) ELSE cursor
        segment == SubSeq(ln, 1, cur)
        hasTrailingSpace == Len(segment) > 0 /\ IsSpace(segment[Len(segment)])
        toks == normalizeKubectl(Fields(segment))
        m == MatchCommand(reg, toks)
        cmd == m.cmd
        pathLen == m.n
        subcommands == suggestSubcommands(reg, toks, co)
        args == SubSeq(toks, pathLen + 1, Len(toks))
    IN  IF Len(toks) = 0 THEN suggestTopLevelCommands(reg, <<>>)
        ELSE IF pathLen = 0
        THEN IF Len(subcommands) > 0 THEN subcommands
             ELSE suggestTopLevelCommands(reg, toks[1])
        ELSE IF ~hasTrailingSpace /\ pathLen = Len(toks) /\ Len(subcommands) > 0
        THEN subcommands
        ELSE IF /\ ~hasTrailingSpace
                /\ Len(args) >= 2
                /\ isFlagToken(args[Len(args) - 1])
                /\ ~isFlagToken(args[Len(args)])
        THEN suggestAfterFlag(cache, cmd, ctx, SubSeq(args, 1, Len(args) - 1),
                              TRUE, fo)
        ELSE IF hasTrailingSpace /\ Len(args) > 0 /\ isFlagToken(args[Len(args)])
        THEN suggestAfterFlag(cache, cmd, ctx, args, hasTrailingSpace, fo)
        ELSE suggestPositionalsAndFlags(cache, cmd, ctx, args,
                                        hasTrailingSpace, fo)

\* the words of the lines and of the grammars
WordA == <<"a">>
WordB == <<"b">>
WordAB == <<"a", "b">>
DashO == <<"-", "o">>
TypeName == <<"a", "/", "b">>
CompWords == {WordA, WordAB, DashN, DashO, TypeName, Kubectl}

\* longest line and most tokens of a line
MaxLineLen == 9
MaxLineTokens == 3

\* the lines: tokens joined by a blank, with or without a blank at the end
CompLines ==
    {l \in {Join(t) \o sp : t \in SeqsUpTo(CompWords, MaxLineTokens),
                            sp \in {<<>>, <<" ">>}} : Len(l) <= MaxLineLen}

\* the namespaces a context names: none, or one of the cache's
ContextNamespaces == {<<>>, WordB}

\* the cache snapshot the completer is given
Snapshot ==
    [namespaces |-> <<WordB, WordA>>,
     resourceTypes |-> <<WordB, WordA>>,
     typesFor |-> (<<WordAB>> :> <<WordAB, WordA>>),
     names |-> (<<WordA, WordB>> :> <<WordB, WordA>>) @@
               (<<WordAB, WordB>> :> <<WordAB, WordA>>) @@
               (<<WordA, WordA>> :> <<WordA>>) @@
               (<<<<>>, WordB>> :> <<WordB>>),
     containers |-> (<<WordB, <<>>, <<>>>> :> <<WordB, WordA>>) @@
                    (<<WordB, WordA, <<>>>> :> <<WordA>>)]

\* the token descriptors of the grammars: a kind, with or without a list of
\* allowed values
Plain(kind) == TokenDescriptor(kind, "r", <<>>)
Listed(kind) == TokenDescriptor(kind, "r", <<WordB, WordA>>)

\* CommandSpec with its positionals
CommandSpecOf(path, positionals, flags) ==
    [path |-> path, flags |-> flags, positionals |-> positionals]

\* a grammar of three commands, a, a sub and ab; a takes the positional p and
\* the flags -n (with --namespace) and -o, whose value is described by f;
\* ab takes the positionals q and p and the flag -o (with the alias -n),
\* without a value
GrammarWith(sub, p, f, q) ==
    <<CommandSpecOf(<<WordA>>, <<p>>,
          (DashN :> FlagDescriptor(DashN, <<DashNamespace>>, "namespace-scope",
                        FALSE, <<Plain("namespace")>>, <<"namespace">>)) @@
          (DashO :> FlagDescriptor(DashO, <<>>, "output-format", TRUE, <<f>>,
                        <<"output">>))),
      CommandSpecOf(<<WordA, sub>>, <<>>, NoFlags),
      CommandSpecOf(<<WordAB>>, <<q, p>>,
          (DashO :> FlagDescriptor(DashO, <<DashN>>, "", FALSE, <<>>,
                        <<"output">>)))>>

GrammarOf(p, f, q) == GrammarWith(WordAB, p, f, q)

\* the grammars: every kind is met as a positional and as a flag's value; in
\* one of them the sub-command of a is not the name of a command
CompGrammars ==
    {GrammarWith(WordB, Plain("resource-type"), Listed("output"),
                 Plain("resource-name")),
     GrammarOf(Plain("resource-type"), Listed("output"), Plain("resource-name")),
     GrammarOf(Plain("resource-name"), Plain("selector"), Listed("resource-type")),
     GrammarOf(Plain("resource-name-or-selector"), Plain("container-name"),
               Plain("namespace")),
     GrammarOf(Plain("namespace"), Plain("resource-type"), Plain("container-name")),
     GrammarOf(Plain("container-name"), Plain("resource-name"), Listed("output")),
     GrammarOf(Listed("output"), Listed("duration"), Plain("literal")),
     GrammarOf(Plain("literal"), Plain("other"), Plain("resource-target")),
     GrammarOf(Plain("selector"), Plain("resource-name-or-selector"),
               Plain("duration"))}
CompFlagKeys == {DashN, DashO}

\* a call of Complete on the built registry, the first for its input; the
\* runtime picks the orders of the two ranges
CompleteOn(lines, spaces, keys) ==
    /\ Built
    /\ cin = <<>>
    /\ \E ln \in lines, ns \in spaces,
          co \in Orders(DOMAIN cmds), fo \in Orders(keys) :
        \E cursor \in -1..(Len(ln) + 1) :
            /\ cin' = <<[line |-> ln, cursor |-> cursor, ns |-> ns]>>
            /\ cout' = <<Complete(cmds, cworld, ln, cursor, [ns |-> ns], co, fo)>>
    /\ UNCHANGED <<cworld, line, verdict, regVars, cacheVars, uiVars, rdVars,
                   parseVars, histVars, callVars>>

CompleteCall == CompleteOn(CompLines, ContextNamespaces, CompFlagKeys)

\* a second call with the same line, cursor and context
CompleteOnceMore(keys) ==
    /\ Built
    /\ Len(cout) = 1
    /\ \E co \in Orders(DOMAIN cmds), fo \in Orders(keys) :
        cout' = Append(cout, Complete(cmds, cworld, cin[1].line, cin[1].cursor,
                                      [ns |-> cin[1].ns], co, fo))
    /\ UNCHANGED <<cworld, cin, line, verdict, regVars, cacheVars, uiVars,
                   rdVars, parseVars, histVars, callVars>>

CompleteAgain == CompleteOnceMore(CompFlagKeys)

\* the words of the rollout scenarios
Rollout == <<"r", "o", "l", "l", "o", "u", "t">>
Restart == <<"r", "e", "s", "t", "a", "r", "t">>
History == <<"h", "i", "s", "t", "o", "r", "y">>
Resume == <<"r", "e", "s", "u", "m", "e">>
Deployment == <<"d", "e", "p", "l", "o", "y", "m", "e", "n", "t">>
Default == <<"d", "e", "f", "a", "u", "l", "t">>
Api == <<"a", "p", "i">>
Worker == <<"w", "o", "r", "k", "e", "r">>

\* the lines of the scenarios: rollout r, rollout restart deployment
ScenarioLines ==
    {Join(<<Rollout, <<"r">>>>), Join(<<Rollout, Restart, Deployment>>) \o <<" ">>}

\* a cache with the deployments api and worker in the namespace default
ScenarioSnapshot ==
    [namespaces |-> <<Default>>,
     resourceTypes |-> <<Deployment>>,
     typesFor |-> (<<Rollout, Restart>> :> <<Deployment>>),
     names |-> (<<Deployment, Default>> :> <<Worker, Api>>),
     containers |-> (<<Default, <<>>, <<>>>> :> <<Api>>)]

\* a rollout sub-command: it takes a resource type and the flag -n
RolloutCommand(sub) ==
    CommandSpecOf(<<Rollout, sub>>, <<Plain("resource-type")>>,
        (DashN :> FlagDescriptor(DashN, <<DashNamespace>>, "namespace-scope",
                      FALSE, <<Plain("namespace")>>, <<"namespace">>)))

\* the grammars with the sub-commands restart, history and resume, without
\* and with a command rollout of its own
ScenarioGrammars ==
    LET subs == <<RolloutCommand(Restart), RolloutCommand(History),
                  RolloutCommand(Resume)>>
    IN  {subs,
         subs \o <<CommandSpecOf(<<Rollout>>, <<>>,
                      (DashN :> FlagDescriptor(DashN, <<DashNamespace>>,
                                    "namespace-scope", FALSE,
                                    <<Plain("namespace")>>, <<"namespace">>)))>>}

\* Complete on the lines of the scenarios
ScenarioCall == CompleteOn(ScenarioLines, {Default}, {DashN})
ScenarioAgain == CompleteOnceMore({DashN})

(***************************************************************************)
(* The command parser (package exec: Parser.Parse). A string is the        *)
(* sequence of its characters, a map a function on its keys.               *)
(***************************************************************************)
\* strings.TrimSpace, strings.TrimPrefix
RECURSIVE TrimLeft(_)
TrimLeft(s) == IF s # <<>> /\ IsSpace(s[1]) THEN TrimLeft(Tail(s)) ELSE s
RECURSIVE TrimRight(_)
TrimRight(s) ==
    IF s # <<>> /\ IsSpace(s[Len(s)])
    THEN TrimRight(SubSeq(s, 1, Len(s) - 1))
    ELSE s
TrimSpace(s) == TrimRight(TrimLeft(s))
TrimPrefix(s, prefix) ==
    IF HasPrefix(s, prefix) THEN SubSeq(s, Len(prefix) + 1, Len(s)) ELSE s

\* tokenize: strings.Fields, no quoting
tokenize(command) == Fields(command)

\* isBooleanFlag, isBooleanShortFlag: the flag is in the list boolFlags
boolFlags ==
    {<<"a", "l", "l", "-", "n", "a", "m", "e", "s", "p", "a", "c", "e", "s">>,
     <<"A">>,
     <<"w", "a", "t", "c", "h">>,
     <<"w">>,
     <<"f", "o", "r", "c", "e">>,
     <<"d", "r", "y", "-", "r", "u", "n">>,
     <<"f", "o", "l", "l", "o", "w">>,
     <<"f">>,
     <<"h", "e", "l", "p">>,
     <<"h">>,
     <<"n", "o", "-", "h", "e", "a", "d", "e", "r", "s">>,
     <<"s", "h", "o", "w", "-", "l", "a", "b", "e", "l", "s">>,
     <<"w", "i", "d", "e">>}
isBooleanFlag(flag) == flag \in boolFlags
isBooleanShortFlag(flag) == isBooleanFlag(flag)

\* expandShortFlag: the long form of a short flag, the flag itself without one
expansions ==
    (<<"n">> :> <<"n", "a", "m", "e", "s", "p", "a", "c", "e">>)
    @@ (<<"f">> :> <<"f", "i", "l", "e", "n", "a", "m", "e">>)
    @@ (<<"o">> :> <<"o", "u", "t", "p", "u", "t">>)
    @@ (<<"l">> :> <<"s", "e", "l", "e", "c", "t", "o", "r">>)
    @@ (<<"c">> :> <<"c", "o", "n", "t", "a", "i", "n", "e", "r">>)
    @@ (<<"A">> :> <<"a", "l", "l", "-", "n", "a", "m", "e", "s", "p", "a",
        "c", "e", "s">>)
    @@ (<<"w">> :> <<"w", "a", "t", "c", "h">>)
    @@ (<<"h">> :> <<"h", "e", "l", "p">>)
expandShortFlag(short) ==
    IF short \in DOMAIN expansions THEN expansions[short] ELSE short

\* the names the parser stores a value of apart
Namespace == <<"n", "a", "m", "e", "s", "p", "a", "c", "e">>
Filename == <<"f", "i", "l", "e", "n", "a", "m", "e">>

\* getFlagCompletionType
getFlagCompletionType(flag) ==
    IF flag = Namespace THEN "CompletionNamespace"
    ELSE IF flag = Filename THEN "CompletionFile"
    ELSE IF flag = <<"o", "u", "t", "p", "u", "t">>
    THEN "CompletionOutputFormat"
    ELSE IF flag = <<"c", "o", "n", "t", "a", "i", "n", "e", "r">>
    THEN "CompletionContainer"
    ELSE IF flag = <<"c", "o", "n", "t", "e", "x", "t">>
    THEN "CompletionContext"
    ELSE "CompletionNamespace"

\* the verbs of the parser's tables, and a word that is no kubectl verb
Get == <<"g", "e", "t">>
Describe == <<"d", "e", "s", "c", "r", "i", "b", "e">>
Delete == <<"d", "e", "l", "e", "t", "e">>
Edit == <<"e", "d", "i", "t">>
Logs == <<"l", "o", "g", "s">>
Exec == <<"e", "x", "e", "c">>
Apply == <<"a", "p", "p", "l", "y">>
Foo == <<"f", "o", "o">>

\* isRequiredFlag: apply requires filename
isRequiredFlag(verb, flag) == verb = Apply /\ flag = Filename

\* normalizeResourceType: the full form of an alias
aliases ==
    (<<"p", "o">> :> <<"p", "o", "d", "s">>)
    @@ (<<"s", "v", "c">> :> <<"s", "e", "r", "v", "i", "c", "e", "s">>)
    @@ (<<"d", "e", "p", "l", "o", "y">> :> <<"d", "e", "p", "l", "o", "y",
        "m", "e", "n", "t", "s">>)
    @@ (<<"r", "s">> :> <<"r", "e", "p", "l", "i", "c", "a", "s", "e", "t",
        "s">>)
    @@ (<<"r", "c">> :> <<"r", "e", "p", "l", "i", "c", "a", "t", "i", "o",
        "n", "c", "o", "n", "t", "r", "o", "l", "l", "e", "r", "s">>)
    @@ (<<"d", "s">> :> <<"d", "a", "e", "m", "o", "n", "s", "e", "t", "s">>)
    @@ (<<"s", "t", "s">> :> <<"s", "t", "a", "t", "e", "f", "u", "l", "s",
        "e", "t", "s">>)
    @@ (<<"c", "m">> :> <<"c", "o", "n", "f", "i", "g", "m", "a", "p", "s">>)
    @@ (<<"s", "e", "c", "r", "e", "t">> :> <<"s", "e", "c", "r", "e", "t",
        "s">>)
    @@ (<<"i", "n", "g">> :> <<"i", "n", "g", "r", "e", "s", "s", "e", "s">>)
    @@ (<<"n", "s">> :> <<"n", "a", "m", "e", "s", "p", "a", "c", "e", "s">>)
    @@ (<<"n", "o">> :> <<"n", "o", "d", "e", "s">>)
    @@ (<<"p", "v">> :> <<"p", "e", "r", "s", "i", "s", "t", "e", "n", "t",
        "v", "o", "l", "u", "m", "e", "s">>)
    @@ (<<"p", "v", "c">> :> <<"p", "e", "r", "s", "i", "s", "t", "e", "n",
        "t", "v", "o", "l", "u", "m", "e", "c", "l", "a", "i", "m", "s">>)
    @@ (<<"s", "a">> :> <<"s", "e", "r", "v", "i", "c", "e", "a", "c", "c",
        "o", "u", "n", "t", "s">>)
    @@ (<<"c", "j">> :> <<"c", "r", "o", "n", "j", "o", "b", "s">>)
normalizeResourceType(resource) ==
    IF resource \in DOMAIN aliases THEN aliases[resource] ELSE resource

\* types.CompletionNeeded
CompletionNeeded(type, flag, required) ==
    [type |-> type, flag |-> flag, required |-> required]

\* the ParsedCommand Parse starts from
NewParsedCommand(command) ==
    [raw |-> command, verb |-> <<>>, resource |-> <<>>, resourceName |-> <<>>,
     namespace |-> <<>>, flags |-> EmptyMap, boolFlags |-> EmptyMap,
     files |-> <<>>, isComplete |-> FALSE, needsInput |-> <<>>,
     isValid |-> TRUE, errors |-> <<>>]

\* cmd.IsValid = false; cmd.Errors = append(cmd.Errors, err)
Invalid(cmd, err) ==
    [cmd EXCEPT !.isValid = FALSE, !.errors = Append(@, err)]

\* cmd.BoolFlags[flag] = true, and a parser that flips the flag at each
\* occurrence instead
flipBoolFlag(cmd, flag) ==
    IF flag \in DOMAIN cmd.boolFlags
    THEN [cmd EXCEPT !.boolFlags =
              [f \in DOMAIN cmd.boolFlags \ {flag} |-> cmd.boolFlags[f]]]
    ELSE [cmd EXCEPT !.boolFlags = (flag :> TRUE) @@ @]
setBoolFlag(cmd, flag) ==
    [cmd EXCEPT !.boolFlags = (flag :> TRUE) @@ @]

\* cmd.Flags[flag] = value, and the fields kept for namespace and filename
setFlag(cmd, flag, value) ==
    LET set == [cmd EXCEPT !.flags = (flag :> value) @@ @]
    IN  IF flag = Namespace THEN [set EXCEPT !.namespace = value]
        ELSE IF flag = Filename THEN [set EXCEPT !.files = Append(@, value)]
        ELSE set

\* the flag expects a value and none is given
needFlag(cmd, flag) ==
    [cmd EXCEPT !.needsInput =
        Append(@, CompletionNeeded(getFlagCompletionType(flag), flag,
                                   isRequiredFlag(cmd.verb, flag)))]

\* a positional argument: the resource, then the resource name
setPositional(cmd, token) ==
    IF cmd.resource = <<>>
    THEN [cmd EXCEPT !.resource = normalizeResourceType(token)]
    ELSE IF cmd.resourceName = <<>>
    THEN [cmd EXCEPT !.resourceName = token]
    ELSE cmd

\* the loop of Parse over tokens[position..]; tokens[1] is the verb
RECURSIVE parseTokens(_, _, _)
parseTokens(toks, position, cmd) ==
    IF position > Len(toks) THEN cmd
    ELSE
    LET token == toks[position]
        valued == /\ position + 1 <= Len(toks)
                  /\ ~HasPrefix(toks[position + 1], <<"-">>)
    IN  IF HasPrefix(token, <<"-", "-">>)
        THEN LET flagName == TrimPrefix(token, <<"-", "-">>)
             IN  IF isBooleanFlag(flagName)
                 THEN parseTokens(toks, position + 1,
                                  setBoolFlag(cmd, flagName))
                 ELSE IF valued
                 THEN parseTokens(toks, position + 2,
                                  setFlag(cmd, flagName, toks[position + 1]))
                 ELSE parseTokens(toks, position + 1, needFlag(cmd, flagName))
        ELSE IF HasPrefix(token, <<"-">>) /\ Len(token) = 2
        THEN LET flagName == TrimPrefix(token, <<"-">>)
                 fullFlag == expandShortFlag(flagName)
             IN  IF isBooleanShortFlag(flagName)
                 THEN parseTokens(toks, position + 1,
                                  setBoolFlag(cmd, fullFlag))
                 ELSE IF valued
                 THEN parseTokens(toks, position + 2,
                                  setFlag(cmd, fullFlag, toks[position + 1]))
                 ELSE parseTokens(toks, position + 1, needFlag(cmd, fullFlag))
        ELSE parseTokens(toks, position + 1, setPositional(cmd, token))

verbsNeedingResource == {Get, Describe, Delete, Edit, Logs, Exec}
verbsNeedingResourceName == {Describe, Delete, Edit, Logs, Exec}

\* Parser.checkCompletions, and one that takes every command that has its
\* positionals for complete
checkCompletionsPositionalsOnly(cmd) ==
    LET need == CompletionNeeded("CompletionResourceName", <<>>, TRUE)
    IN  IF cmd.verb \in verbsNeedingResource /\ cmd.resource = <<>>
        THEN [cmd EXCEPT !.needsInput = Append(@, need), !.isComplete = FALSE]
        ELSE IF /\ cmd.verb \in verbsNeedingResourceName
                /\ cmd.resourceName = <<>>
                /\ cmd.resource # <<>>
        THEN [cmd EXCEPT !.needsInput = Append(@, need), !.isComplete = FALSE]
        ELSE [cmd EXCEPT !.isComplete = TRUE]
checkCompletions(cmd) ==
    LET need == CompletionNeeded("CompletionResourceName", <<>>, TRUE)
    IN  IF cmd.verb \in verbsNeedingResource /\ cmd.resource = <<>>
        THEN [cmd EXCEPT !.needsInput = Append(@, need), !.isComplete = FALSE]
        ELSE IF /\ cmd.verb \in verbsNeedingResourceName
                /\ cmd.resourceName = <<>>
                /\ cmd.resource # <<>>
        THEN [cmd EXCEPT !.needsInput = Append(@, need), !.isComplete = FALSE]
        ELSE [cmd EXCEPT !.isComplete =
                  ~\E i \in DOMAIN cmd.needsInput : cmd.needsInput[i].required]

\* Parser.Parse
Parse(command) ==
    LET cmd == NewParsedCommand(command)
        trimmed == TrimSpace(command)
        stripped == TrimSpace(TrimPrefix(trimmed, Kubectl \o <<" ">>))
        toks == tokenize(stripped)
    IN  IF HasPrefix(trimmed, <<"!">>) THEN Invalid(cmd, "shell command")
        ELSE IF stripped = <<>> THEN Invalid(cmd, "empty command")
        ELSE IF Len(toks) = 0 THEN Invalid(cmd, "no command specified")
        ELSE checkCompletions(
                 parseTokens(toks, 2, [cmd EXCEPT !.verb = toks[1]]))

\* the words of the lines handed to Parse
Pods == <<"p", "o", "d", "s">>
Po == <<"p", "o">>
Prod == <<"p", "r", "o", "d">>
DeploymentYaml == <<"d", "e", "p", "l", "o", "y", "m", "e", "n", "t", ".",
    "y", "a", "m", "l">>
DashA == <<"-", "A">>
DashF == <<"-", "f">>
DashForce == <<"-", "-", "f", "o", "r", "c", "e">>
DashFilename == <<"-", "-", "f", "i", "l", "e", "n", "a", "m", "e">>
ParseVerbs == {Get, Describe, Delete, Edit, Logs, Exec, Apply, Foo}
ParseWords == {Pods, Po, Prod, DashA, DashF, DashN, DashForce, DashFilename}
\* the most arguments of a line made of ParseWords
MaxParseArgs == 3

\* the scenario lines: kubectl apply -f deployment.yaml -n prod --force,
\* kubectl get pods -A
ApplyLine ==
    Join(<<Kubectl, Apply, DashF, DeploymentYaml, DashN, Prod, DashForce>>)
GetAllLine == Join(<<Kubectl, Get, Pods, DashA>>)

\* the lines without a verb, the shell lines, lines in spaces
OddLines ==
    {<<>>, <<" ">>, Kubectl, Kubectl \o <<" ">>,
     <<" ">> \o Kubectl \o <<" ", " ">>,
     <<"!">>, <<"!", "l", "s">>, <<" ", "!">> \o Join(<<Get, Pods>>),
     Join(<<Kubectl, Foo>>), Join(<<Kubectl, Kubectl>>),
     <<" ">> \o Join(<<Kubectl, <<>>, Get, Pods>>) \o <<" ">>}

ParseLines ==
    {Join(<<v>> \o a) : v \in ParseVerbs,
                         a \in SeqsUpTo(ParseWords, MaxParseArgs)}
    \cup {ApplyLine, GetAllLine} \cup OddLines

\* the token is a boolean flag to Parse
IsBooleanToken(token) ==
    IF HasPrefix(token, <<"-", "-">>)
    THEN isBooleanFlag(TrimPrefix(token, <<"-", "-">>))
    ELSE /\ HasPrefix(token, <<"-">>)
         /\ Len(token) = 2
         /\ isBooleanShortFlag(TrimPrefix(token, <<"-">>))

\* the index of the verb among the fields of a line
VerbAt(fields) ==
    IF Len(fields) >= 2 /\ fields[1] = Kubectl THEN 2 ELSE 1

\* the fields with token written once more, as field j
InsertAt(fields, j, token) ==
    SubSeq(fields, 1, j - 1) \o <<token>> \o SubSeq(fields, j, Len(fields))

\* no call of Parse yet
ParseIdle == pin = <<>> /\ pout = <<>>
\* no goroutine that calls a History
HistIdle == hgo = <<>> /\ hmu = <<>>
\* no call of Refresh or Stop from outside the cache yet
CallIdle == rcall = "idle" /\ stopped = FALSE

\* p.Parse(command)
ParseCall ==
    /\ pin = <<>>
    /\ \E command \in ParseLines :
        /\ pin' = <<command>>
        /\ pout' = <<Parse(command)>>
    /\ UNCHANGED <<cacheVars, fnVars, uiVars, rdVars, histVars, callVars>>

\* p.Parse of the line with one of its boolean flags written once more,
\* anywhere after the verb
ParseRepeated ==
    /\ Len(pin) = 1
    /\ pout[1].isValid
    /\ LET fields == Fields(pin[1])
           first == VerbAt(fields) + 1
       IN  \E i \in first..Len(fields), j \in first..(Len(fields) + 1) :
               /\ IsBooleanToken(fields[i])
               /\ LET command == Join(InsertAt(fields, j, fields[i]))
                  IN  /\ pin' = Append(pin, command)
                      /\ pout' = Append(pout, Parse(command))
    /\ UNCHANGED <<cacheVars, fnVars, uiVars, rdVars, histVars, callVars>>

(***************************************************************************)
(* The UI (tui.Model.Update and the handlers of update.go)                 *)
(***************************************************************************)
\* what the user types in this model
TypedLines ==
    {NoLine,
     Line(FALSE, <<"get", "pods">>),
     Line(FALSE, <<"delete", "pods">>),
     Line(FALSE, <<"kubectl", "delete", "pods">>),
     Line(FALSE, <<"get", "pods", "--force">>),
     Line(FALSE, <<"rm">>),
     Line(TRUE, <<"rm">>),
     Line(TRUE, <<>>)}

\* the history file the program finds at startup
InitHistories ==
    {<<>>, <<[cmd |-> Line(FALSE, <<"kubectl", "delete", "pods">>),
              success |-> TRUE]>>}

\* cfg.HistorySize, and the commands in flight at a time
HistMaxSize == 2
MaxPending == 1

\* isKubectlVerb: a top-level command of the registry (or of the fallback)
KubectlVerbs == {"get", "delete", "drain", "cordon", "rollout"}
isKubectlVerb(w) == w \in KubectlVerbs

\* prepareCommand(raw): (command, isShell, err)
prepareCommand(l) ==
    IF l = NoLine
    THEN [cmd |-> NoLine, shell |-> FALSE, err |-> TRUE]
    ELSE IF l.bang
    THEN IF l.toks = <<>>
         THEN [cmd |-> NoLine, shell |-> TRUE, err |-> TRUE]
         ELSE [cmd |-> l, shell |-> TRUE, err |-> FALSE]
    ELSE IF l.toks[1] = "kubectl"
    THEN [cmd |-> l, shell |-> FALSE, err |-> FALSE]
    ELSE IF isKubectlVerb(l.toks[1])
    THEN [cmd |-> Line(FALSE, <<"kubectl">> \o l.toks), shell |-> FALSE,
          err |-> FALSE]
    ELSE [cmd |-> Line(TRUE, l.toks), shell |-> TRUE, err |-> FALSE]

\* a History that adds at the end and trims from the end
HistoryAddLast(h, c, ok) ==
    LET all == h \o <<[cmd |-> c, success |-> ok]>>
    IN  IF Len(all) > HistMaxSize THEN SubSeq(all, 1, HistMaxSize) ELSE all

\* History.Get(n): a copy of the first n entries, of all when n is larger
HistoryGet(h, n) ==
    SubSeq(h, 1, IF n > Len(h) THEN Len(h) ELSE n)

\* History.Add: prepend, trim to maxSize
HistoryAdd(h, c, ok) ==
    LET all == <<[cmd |-> c, success |-> ok]>> \o h
    IN  IF Len(all) > HistMaxSize THEN SubSeq(all, 1, HistMaxSize) ELSE all

\* return m, executeCommand(m.executor, command)
Dispatch(c) ==
    /\ Len(pending) < MaxPending
    /\ pending' = Append(pending, c)
    /\ lastRun' = [cmd |-> c, asked |-> c \in asked]

\* a key the text input takes: the line is edited
KeyType ==
    /\ mode = "Typing"
    /\ input' \in TypedLines \ {input}
    /\ UNCHANGED <<mode, lastCmd, hasOutput, hist, executorOk, pending,
                   asked, lastRun, cmdError, disk, cacheVars,
                   fnVars, rdVars, parseVars, histVars, callVars>>

\* handleTypingMode, case "enter"
KeyEnterTyping ==
    /\ mode = "Typing"
    /\ LET p == prepareCommand(input) IN
         /\ ~p.err
         /\ lastCmd' = p.cmd
         /\ IF ~p.shell /\ IsDestructive(p.cmd)
            THEN /\ mode' = "Confirming"
                 /\ asked' = asked \cup {p.cmd}
                 /\ UNCHANGED <<pending, lastRun>>
            ELSE /\ IF executorOk
                    THEN Dispatch(p.cmd)
                    ELSE UNCHANGED <<pending, lastRun>>
                 /\ UNCHANGED <<mode, asked>>
    /\ UNCHANGED <<input, hasOutput, hist, executorOk, cmdError, disk, cacheVars,
                   fnVars, rdVars, parseVars, histVars, callVars>>

\* handleKeyPress, case "esc": back to typing from any other mode
KeyEsc ==
    /\ mode # "Typing"
    /\ mode' = "Typing"
    /\ UNCHANGED <<input, lastCmd, hasOutput, hist, executorOk, pending,
                   asked, lastRun, cmdError, disk, cacheVars,
                   fnVars, rdVars, parseVars, histVars, callVars>>

\* handleTypingMode, case "ctrl+r"
KeyHistory ==
    /\ mode = "Typing"
    /\ mode' = "ViewingHistory"
    /\ UNCHANGED <<input, lastCmd, hasOutput, hist, executorOk, pending,
                   asked, lastRun, cmdError, disk, cacheVars,
                   fnVars, rdVars, parseVars, histVars, callVars>>

\* handleViewingHistoryMode, case "enter", on entry i of the list
KeyEnterHistory(i) ==
    /\ mode = "ViewingHistory"
    /\ i \in 1..Len(hist)
    /\ input' = hist[i].cmd
    /\ mode' = "Typing"
    /\ LET p == prepareCommand(hist[i].cmd) IN
         IF ~p.err /\ executorOk
         THEN /\ lastCmd' = p.cmd
              /\ Dispatch(p.cmd)
         ELSE UNCHANGED <<lastCmd, pending, lastRun>>
    /\ UNCHANGED <<hasOutput, hist, executorOk, asked, cmdError, disk, cacheVars,
                   fnVars, rdVars, parseVars, histVars, callVars>>

\* handleViewingHistoryMode, case "e"
KeyEditHistory(i) ==
    /\ mode = "ViewingHistory"
    /\ i \in 1..Len(hist)
    /\ input' = hist[i].cmd
    /\ mode' = "Typing"
    /\ UNCHANGED <<lastCmd, hasOutput, hist, executorOk, pending, asked,
                   lastRun, cmdError, disk, cacheVars,
                   fnVars, rdVars, parseVars, histVars, callVars>>

\* handleTypingMode, case "ctrl+o"
KeyViewOutput ==
    /\ mode = "Typing"
    /\ hasOutput
    /\ mode' = "ViewingOutput"
    /\ UNCHANGED <<input, lastCmd, hasOutput, hist, executorOk, pending,
                   asked, lastRun, cmdError, disk, cacheVars,
                   fnVars, rdVars, parseVars, histVars, callVars>>

\* handleViewingOutputMode, case "n", "q"
KeyNewCommand ==
    /\ mode = "ViewingOutput"
    /\ hasOutput' = FALSE
    /\ mode' = "Typing"
    /\ input' = NoLine
    /\ UNCHANGED <<lastCmd, hist, executorOk, pending, asked, lastRun,
                   cmdError, disk, cacheVars,
                   fnVars, rdVars, parseVars, histVars, callVars>>

\* handleViewingOutputMode, case "r"
KeyRerun ==
    /\ mode = "ViewingOutput"
    /\ lastCmd # NoLine
    /\ executorOk
    /\ Dispatch(lastCmd)
    /\ UNCHANGED <<mode, input, lastCmd, hasOutput, hist, executorOk, asked,
                   cmdError, disk, cacheVars,
                   fnVars, rdVars, parseVars, histVars, callVars>>

\* handleViewingOutputMode, case "e"
KeyEditLast ==
    /\ mode = "ViewingOutput"
    /\ lastCmd # NoLine
    /\ hasOutput' = FALSE
    /\ input' = lastCmd
    /\ mode' = "Typing"
    /\ UNCHANGED <<lastCmd, hist, executorOk, pending, asked, lastRun,
                   cmdError, disk, cacheVars,
                   fnVars, rdVars, parseVars, histVars, callVars>>

\* handleTypingMode, case "ctrl+l"
KeyClear ==
    /\ mode = "Typing"
    /\ hasOutput' = FALSE
    /\ input' = NoLine
    /\ UNCHANGED <<mode, lastCmd, hist, executorOk, pending, asked, lastRun,
                   cmdError, disk, cacheVars,
                   fnVars, rdVars, parseVars, histVars, callVars>>

\* a result handler that leaves the file as it was
CommandResultNoSave(i, ok, out) ==
    /\ i \in 1..Len(pending)
    /\ pending' = SubSeq(pending, 1, i - 1) \o SubSeq(pending, i + 1, Len(pending))
    /\ hasOutput' = (out \/ ~ok)
    /\ cmdError' = ~ok
    /\ hist' = HistoryAdd(hist, pending[i], ok)
    /\ mode' = "Typing"
    /\ input' = NoLine
    /\ UNCHANGED <<lastCmd, executorOk, asked, lastRun, disk, cacheVars,
                   fnVars, rdVars, parseVars, histVars, callVars>>

\* Update, case commandResultMsg: the output kept (stdout, and a newline
\* and stderr after an error), history.Add and Save, back to typing with an
\* empty input
CommandResult(i, ok, out) ==
    /\ i \in 1..Len(pending)
    /\ pending' = SubSeq(pending, 1, i - 1) \o SubSeq(pending, i + 1, Len(pending))
    /\ hasOutput' = (out \/ ~ok)
    /\ cmdError' = ~ok
    /\ hist' = HistoryAdd(hist, pending[i], ok)
    /\ disk' = hist'   \* _ = m.history.Save(): the file is rewritten
    /\ mode' = "Typing"
    /\ input' = NoLine
    /\ UNCHANGED <<lastCmd, executorOk, asked, lastRun, cacheVars, fnVars,
                   rdVars, parseVars, histVars, callVars>>

\* handleKeyPress in ModeConfirming: the switch on m.mode has no case for
\* it, so a key other than esc and ctrl+c returns the model as it is
KeyConfirming(k) ==
    /\ mode = "Confirming"
    /\ k \in {"y", "n"}
    /\ UNCHANGED <<uiVars, cacheVars, fnVars, rdVars, parseVars, histVars,
                   callVars>>

UINext ==
    \/ KeyType
    \/ \E k \in {"y", "n"} : KeyConfirming(k)
    \/ KeyEnterTyping
    \/ KeyEsc
    \/ KeyHistory
    \/ \E i \in 1..HistMaxSize : KeyEnterHistory(i)
    \/ \E i \in 1..HistMaxSize : KeyEditHistory(i)
    \/ KeyViewOutput
    \/ KeyNewCommand
    \/ KeyRerun
    \/ KeyEditLast
    \/ KeyClear
    \/ \E i \in 1..MaxPending, ok \in BOOLEAN, out \in BOOLEAN :
          CommandResult(i, ok, out)

(***************************************************************************)
(* Specifications                                                          *)
(***************************************************************************)
\* the parts a specification does not run
CacheIdle == CacheInit(0, FALSE) /\ cl = MkCluster({}, {}, {})
\* NewRegistry with the grammar g
RegInit(g) ==
    /\ root = g
    /\ cmds = NoCommands
    /\ bi = IF g = <<>> THEN 0 ELSE 1
    /\ rt = NoRuntime
    /\ todo = {}
    /\ prev = <<>>
    /\ tokens = <<>>
    /\ matched = <<>>
RegIdle == RegInit(<<>>)
\* no call of Complete yet, no cache given to the completer
CompIdle == cworld = <<>> /\ cin = <<>> /\ cout = <<>>
FnIdle ==
    /\ line = NoLine /\ verdict = <<>>
    /\ RdInit /\ ParseIdle /\ HistIdle /\ CallIdle /\ RegIdle /\ CompIdle
\* NewModel
UIInit ==
    /\ mode = "Typing"
    /\ input = NoLine
    /\ lastCmd = NoLine
    /\ hasOutput = FALSE
    /\ cmdError = FALSE
    /\ hist \in InitHistories
    /\ disk = hist
    /\ executorOk \in BOOLEAN
    /\ pending = <<>>
    /\ asked = {}
    /\ lastRun = [cmd |-> NoLine, asked |-> FALSE]
UIIdle ==
    /\ UIInit
    /\ hist = <<>>
    /\ executorOk

Init == CacheInit(MaxClusterOps, FALSE) /\ FnIdle /\ UIIdle
Next == CacheNext
Spec == Init /\ [][Next]_vars

\* the same, with the resync's observations recorded
ObsInit == CacheInit(MaxClusterOps, TRUE) /\ FnIdle /\ UIIdle
ObsSpec == ObsInit /\ [][Next]_vars

\* the cache with a caller of its read methods
ReadInit == CacheInit(MaxReadOps, FALSE) /\ FnIdle /\ UIIdle
ReadSpec == ReadInit /\ [][CacheNext \/ ReaderStep]_vars

\* the cache with one more goroutine that calls rc.Refresh()
RefreshInit == CacheInit(MaxFairOps, FALSE) /\ FnIdle /\ UIIdle
RefreshNext == CacheNext \/ RefreshCall \/ RefreshCallReturn
RefreshSpec == RefreshInit /\ [][RefreshNext]_vars

\* a cache that is never stopped
RunningNext ==
    \/ ClusterStep
    \/ StartCall
    \/ StartRefresh
    \/ StartSpawn
    \/ RefreshStep
    \/ ResyncTick
    \/ \E w \in Watchers : WatcherStep(w)

\* IsDestructive on every line of up to MaxTokens tokens
ClassifyInit ==
    /\ CacheIdle
    /\ UIIdle
    /\ line \in {Line(b, t) : b \in BOOLEAN, t \in SeqsUpTo(Words, MaxTokens)}
    /\ verdict = <<>>
    /\ RdInit /\ ParseIdle /\ HistIdle /\ CallIdle
    /\ RegIdle
    /\ CompIdle
ClassifySpec == ClassifyInit /\ [][Classify \/ NextLine]_vars

\* MatchCommand on the registry of every grammar without flags
MatchInit ==
    /\ CacheIdle
    /\ UIIdle
    /\ line = NoLine /\ verdict = <<>>
    /\ RdInit /\ ParseIdle /\ HistIdle /\ CallIdle
    /\ CompIdle
    /\ \E g \in MatchGrammars \ {<<>>} : RegInit(g)
MatchNext ==
    \/ RegCommand
    \/ RegStore
    \/ \E toks \in SeqsUpTo(PathWords, MaxMatchTokens) : Match(toks)
MatchSpec == MatchInit /\ [][MatchNext]_vars

\* NewRegistry on every grammar with flags, and once more on the same
\* commands in any order
RegSpecInit ==
    /\ CacheIdle
    /\ UIIdle
    /\ line = NoLine /\ verdict = <<>>
    /\ RdInit /\ ParseIdle /\ HistIdle /\ CallIdle
    /\ CompIdle
    /\ \E g \in FlagGrammars \ {<<>>} : RegInit(g)
RegNext ==
    \/ RegCommand
    \/ \E primary \in FlagKeys : RegFlag(primary)
    \/ RegStore
    \/ \E perm \in Perms(Len(root)) : Rebuild(perm)
RegSpec == RegSpecInit /\ [][RegNext]_vars

\* Complete, twice on one input, on the registry of every grammar of
\* CompGrammars, with and without a cache
CompInit ==
    /\ CacheIdle
    /\ UIIdle
    /\ line = NoLine /\ verdict = <<>>
    /\ RdInit /\ ParseIdle /\ HistIdle /\ CallIdle
    /\ cworld \in {<<>>, <<Snapshot>>}
    /\ cin = <<>> /\ cout = <<>>
    /\ \E g \in CompGrammars : RegInit(g)
CompNext ==
    \/ RegCommand
    \/ \E primary \in CompFlagKeys : RegFlag(primary)
    \/ RegStore
    \/ CompleteCall
    \/ CompleteAgain
CompSpec == CompInit /\ [][CompNext]_vars

\* Complete on the lines of the scenarios, on the registry of a grammar with
\* the rollout sub-commands
ScenarioInit ==
    /\ CacheIdle
    /\ UIIdle
    /\ line = NoLine /\ verdict = <<>>
    /\ RdInit /\ ParseIdle /\ HistIdle /\ CallIdle
    /\ cworld \in {<<>>, <<ScenarioSnapshot>>}
    /\ cin = <<>> /\ cout = <<>>
    /\ \E g \in ScenarioGrammars : RegInit(g)
ScenarioNext ==
    \/ RegCommand
    \/ RegFlag(DashN)
    \/ RegStore
    \/ ScenarioCall
    \/ ScenarioAgain
ScenarioSpec == ScenarioInit /\ [][ScenarioNext]_vars

\* Complete on lines of get with flags before and after its argument: get
\* takes one positional, a resource type, the flag -A without a value and
\* the flag -n with one
MaxGetArgs == 3
GetGrammar ==
    <<CommandSpecOf(<<Get>>, <<Plain("resource-type")>>,
          (DashA :> FlagDescriptor(DashA, <<>>, "namespace-scope", FALSE, <<>>,
                        <<"all">>)) @@
          (DashN :> FlagDescriptor(DashN, <<DashNamespace>>, "namespace-scope",
                        FALSE, <<Plain("namespace")>>, <<"namespace">>)))>>
GetLines ==
    {Join(<<Get>> \o t) \o sp : t \in SeqsUpTo({Pods, Po, DashA, DashN},
                                                MaxGetArgs),
                                sp \in {<<>>, <<" ">>}}
GetSnapshot ==
    [namespaces |-> <<Prod>>,
     resourceTypes |-> <<Pods>>,
     typesFor |-> (<<Get>> :> <<Pods>>),
     names |-> (<<Pods, Prod>> :> <<Api>>) @@ (<<Po, Prod>> :> <<Worker>>),
     containers |-> (<<Prod, <<>>, <<>>>> :> <<Api>>)]
GetCall == CompleteOn(GetLines, {Prod}, {DashA, DashN})
GetAgain == CompleteOnceMore({DashA, DashN})
GetInit ==
    /\ CacheIdle
    /\ UIIdle
    /\ line = NoLine /\ verdict = <<>>
    /\ RdInit /\ ParseIdle /\ HistIdle /\ CallIdle
    /\ cworld \in {<<>>, <<GetSnapshot>>}
    /\ cin = <<>> /\ cout = <<>>
    /\ RegInit(GetGrammar)
GetNext ==
    \/ RegCommand
    \/ \E primary \in {DashA, DashN} : RegFlag(primary)
    \/ RegStore
    \/ GetCall
    \/ GetAgain
GetSpec == GetInit /\ [][GetNext]_vars

\* Parse on every line of ParseLines, then on the line with one of its
\* boolean flags written once more
ParseInit == CacheIdle /\ FnIdle /\ UIIdle
ParseNext ==
    \/ ParseCall
    \/ ParseRepeated
ParseSpec == ParseInit /\ [][ParseNext]_vars

\* A History on its own (internal/history): its entries are hist, its file
\* is disk. The file may come from a run with a larger cfg.HistorySize, so
\* it holds up to MaxFileEntries entries.
MaxFileEntries == HistMaxSize + 1
HistCommands ==
    {Line(FALSE, <<"get", "pods">>), Line(FALSE, <<"delete", "pods">>)}
HistEntries == [cmd : HistCommands, success : BOOLEAN]
HistFiles == SeqsUpTo(HistEntries, MaxFileEntries)

\* the model's other fields stay as NewModel left them
HistRest ==
    UNCHANGED <<mode, input, lastCmd, hasOutput, cmdError, executorOk, pending,
                asked, lastRun, cacheVars, fnVars, rdVars, parseVars, histVars,
                callVars>>

\* History.Load: json.Unmarshal(data, &h.commands)
HistoryLoad(file) == file

\* NewHistory: no entries, then Load
NewHistory(file) == HistoryLoad(file)

\* h.Add(cmd, success, ctx, ns)
HistAdd ==
    /\ \E e \in HistEntries : hist' = HistoryAdd(hist, e.cmd, e.success)
    /\ UNCHANGED disk
    /\ HistRest

\* h.Delete(index): nothing for an index out of range
HistDelete ==
    /\ hist # <<>>
    /\ \E index \in -1..Len(hist) :
        hist' = IF index < 0 \/ index >= Len(hist) THEN hist
                ELSE SubSeq(hist, 1, index) \o SubSeq(hist, index + 2, Len(hist))
    /\ UNCHANGED disk
    /\ HistRest

\* h.Clear()
HistClear ==
    /\ hist # <<>>
    /\ hist' = <<>>
    /\ UNCHANGED disk
    /\ HistRest

\* h.Save()
HistSave ==
    /\ disk # hist
    /\ disk' = hist
    /\ UNCHANGED hist
    /\ HistRest

\* h.Load()
HistLoad ==
    /\ hist # disk
    /\ hist' = HistoryLoad(disk)
    /\ UNCHANGED disk
    /\ HistRest

HistoryInit ==
    /\ CacheIdle
    /\ FnIdle
    /\ mode = "Typing"
    /\ input = NoLine
    /\ lastCmd = NoLine
    /\ hasOutput = FALSE
    /\ cmdError = FALSE
    /\ disk \in HistFiles
    /\ hist = NewHistory(disk)
    /\ executorOk = TRUE
    /\ pending = <<>>
    /\ asked = {}
    /\ lastRun = [cmd |-> NoLine, asked |-> FALSE]
HistoryNext ==
    \/ HistAdd
    \/ HistDelete
    \/ HistClear
    \/ HistSave
    \/ HistLoad
HistorySpec == HistoryInit /\ [][HistoryNext]_vars

\* A History called from several goroutines. h.mu is a sync.RWMutex: Lock
\* takes the writer's place (hmu.w) and then waits until no reader holds the
\* mutex; RLock waits while a writer has or waits for the mutex, also when
\* the caller holds a read lock already.
HistGoroutines == {"g1", "g2"}
\* the calls a goroutine makes
MaxHistCalls == 2
HistWrites == {"Add", "Delete", "Clear"}
HistReads == {"Get", "GetAll", "Search", "Filter"}

HistCaller(left, adds, removes) ==
    [op |-> "none", pc |-> "idle", query |-> "", local |-> <<>>, left |-> left,
     adds |-> adds, removes |-> removes]

\* the model's other fields, and the file, stay as they are
HistCallRest ==
    UNCHANGED <<mode, input, lastCmd, hasOutput, cmdError, disk, executorOk,
                pending, asked, lastRun, cacheVars, fnVars, rdVars, parseVars,
                callVars>>

\* h.mu.Lock() can take the writer's place; a mutex that lets every writer in
CanLockAlways(g) == TRUE
CanLock(g) == hmu.w = "none"
\* h.mu.RLock() can go on
CanRLock(g) == hmu.w = "none"
NoReader == \A r \in HistGoroutines : hmu.r[r] = 0

\* go h.Add(..), h.Get(n), h.GetAll(), h.Search(query), h.Filter(..),
\* h.Delete(index), h.Clear()
HistCall(g) ==
    /\ hgo[g].pc = "idle"
    /\ hgo[g].left > 0
    /\ \E op \in HistWrites \cup HistReads, query \in {"", "q"} :
        /\ op # "Search" => query = ""
        /\ hgo' = [hgo EXCEPT ![g].op = op, ![g].query = query,
                              ![g].pc = IF op \in HistWrites THEN "lock"
                                        ELSE "rlock"]
    /\ UNCHANGED <<hmu, hist>>
    /\ HistCallRest

\* h.mu.Lock(): the writer's place is taken
HistLock(g) ==
    /\ hgo[g].pc = "lock"
    /\ CanLock(g)
    /\ hmu' = [hmu EXCEPT !.w = g]
    /\ hgo' = [hgo EXCEPT ![g].pc = "wait"]
    /\ UNCHANGED hist
    /\ HistCallRest

\* h.mu.Lock() returns: the readers are gone
HistLocked(g) ==
    /\ hgo[g].pc = "wait"
    /\ NoReader
    /\ hgo' = [hgo EXCEPT ![g].pc = "locked"]
    /\ UNCHANGED <<hmu, hist>>
    /\ HistCallRest

\* Add: the new list is built from h.commands
HistAddRead(g) ==
    /\ hgo[g].pc = "locked"
    /\ hgo[g].op = "Add"
    /\ \E e \in HistEntries :
        hgo' = [hgo EXCEPT ![g].pc = "write",
                          ![g].local = HistoryAdd(hist, e.cmd, e.success)]
    /\ UNCHANGED <<hmu, hist>>
    /\ HistCallRest

\* Add: h.commands is assigned, the deferred Unlock runs
HistAddWrite(g) ==
    /\ hgo[g].pc = "write"
    /\ hist' = hgo[g].local
    /\ hmu' = [hmu EXCEPT !.w = "none"]
    /\ hgo' = [hgo EXCEPT ![g] = HistCaller(@.left - 1, @.adds + 1, @.removes)]
    /\ HistCallRest

\* Delete(index) with the mutex held, and the deferred Unlock
HistDeleteLocked(g) ==
    /\ hgo[g].pc = "locked"
    /\ hgo[g].op = "Delete"
    /\ \E index \in -1..Len(hist) :
        hist' = IF index < 0 \/ index >= Len(hist) THEN hist
                ELSE SubSeq(hist, 1, index) \o SubSeq(hist, index + 2, Len(hist))
    /\ hmu' = [hmu EXCEPT !.w = "none"]
    /\ hgo' = [hgo EXCEPT ![g] = HistCaller(@.left - 1, @.adds, @.removes + 1)]
    /\ HistCallRest

\* Clear with the mutex held, and the deferred Unlock
HistClearLocked(g) ==
    /\ hgo[g].pc = "locked"
    /\ hgo[g].op = "Clear"
    /\ hist' = <<>>
    /\ hmu' = [hmu EXCEPT !.w = "none"]
    /\ hgo' = [hgo EXCEPT ![g] = HistCaller(@.left - 1, @.adds, @.removes + 1)]
    /\ HistCallRest

\* h.mu.RLock() of Get, GetAll, Search and Filter
HistRLock(g) ==
    /\ hgo[g].pc = "rlock"
    /\ CanRLock(g)
    /\ hmu' = [hmu EXCEPT !.r[g] = @ + 1]
    /\ hgo' = [hgo EXCEPT ![g].pc = "reading"]
    /\ UNCHANGED hist
    /\ HistCallRest

\* Get, GetAll, Filter, Search of a query: the copy is made, the deferred
\* RUnlock runs
HistRead(g) ==
    /\ hgo[g].pc = "reading"
    /\ hgo[g].op = "Search" => hgo[g].query # ""
    /\ hmu' = [hmu EXCEPT !.r[g] = @ - 1]
    /\ hgo' = [hgo EXCEPT ![g] = HistCaller(@.left - 1, @.adds, @.removes)]
    /\ UNCHANGED hist
    /\ HistCallRest

\* Search(""): return h.GetAll(), called with the read lock held
HistSearchAll(g) ==
    /\ hgo[g].pc = "reading"
    /\ hgo[g].op = "Search"
    /\ hgo[g].query = ""
    /\ hgo' = [hgo EXCEPT ![g].pc = "rlock2"]
    /\ UNCHANGED <<hmu, hist>>
    /\ HistCallRest

\* the h.mu.RLock() of that GetAll
HistRLockAgain(g) ==
    /\ hgo[g].pc = "rlock2"
    /\ CanRLock(g)
    /\ hmu' = [hmu EXCEPT !.r[g] = @ + 1]
    /\ hgo' = [hgo EXCEPT ![g].pc = "reading2"]
    /\ UNCHANGED hist
    /\ HistCallRest

\* that GetAll returns its copy: its deferred RUnlock
HistGetAllReturn(g) ==
    /\ hgo[g].pc = "reading2"
    /\ hmu' = [hmu EXCEPT !.r[g] = @ - 1]
    /\ hgo' = [hgo EXCEPT ![g].pc = "return"]
    /\ UNCHANGED hist
    /\ HistCallRest

\* Search("") returns: its deferred RUnlock
HistSearchReturn(g) ==
    /\ hgo[g].pc = "return"
    /\ hmu' = [hmu EXCEPT !.r[g] = @ - 1]
    /\ hgo' = [hgo EXCEPT ![g] = HistCaller(@.left - 1, @.adds, @.removes)]
    /\ UNCHANGED hist
    /\ HistCallRest

\* an empty History, no file, the goroutines about to call
HistCallInit ==
    /\ CacheIdle
    /\ UIIdle
    /\ line = NoLine /\ verdict = <<>>
    /\ RdInit /\ ParseIdle /\ CallIdle /\ RegIdle /\ CompIdle
    /\ hgo = [g \in HistGoroutines |-> HistCaller(MaxHistCalls, 0, 0)]
    /\ hmu = [w |-> "none", r |-> [g \in HistGoroutines |-> 0]]
HistCallNext ==
    \/ \E g \in HistGoroutines : HistCall(g)
    \/ \E g \in HistGoroutines : HistLock(g)
    \/ \E g \in HistGoroutines : HistLocked(g)
    \/ \E g \in HistGoroutines : HistAddRead(g)
    \/ \E g \in HistGoroutines : HistAddWrite(g)
    \/ \E g \in HistGoroutines : HistDeleteLocked(g)
    \/ \E g \in HistGoroutines : HistClearLocked(g)
    \/ \E g \in HistGoroutines : HistRLock(g)
    \/ \E g \in HistGoroutines : HistRead(g)
    \/ \E g \in HistGoroutines : HistSearchAll(g)
    \/ \E g \in HistGoroutines : HistRLockAgain(g)
    \/ \E g \in HistGoroutines : HistGetAllReturn(g)
    \/ \E g \in HistGoroutines : HistSearchReturn(g)
HistCallSpec == HistCallInit /\ [][HistCallNext]_vars

\* the UI
UISpecInit == CacheIdle /\ FnIdle /\ UIInit
UISpec == UISpecInit /\ [][UINext]_vars

(***************************************************************************)
(* Scheduling. Every goroutine that can take a step eventually takes one:  *)
(* a Watch or List call returns, a sleep ends, the ticker fires, a stream  *)
(* whose context is cancelled ends. Nothing makes an open stream end       *)
(* otherwise, the user call Stop, or the cluster change. select picks      *)
(* among its ready cases at random, so a backgroundRefresh that finds      *)
(* rc.ctx done again and again eventually takes that case.                 *)
(***************************************************************************)
TaskFairness ==
    /\ WF_vars(StartCall)
    /\ WF_vars(StartRefresh)
    /\ WF_vars(StartSpawn)
    /\ WF_vars(RefreshStep)
    /\ WF_vars(ResyncTick)
    /\ SF_vars(ResyncExit)
    /\ \A w \in Watchers :
        /\ WF_vars(WatchTop(w))
        /\ WF_vars(WatchOpenOk(w) \/ WatchOpenFail(w))
        /\ WF_vars(WatchEvent(w))
        /\ WF_vars(cancelled /\ WatchClosed(w))
        /\ WF_vars(WatchWake(w))

\* The API server is not down for ever: a list call that is made again and
\* again eventually succeeds, for each list of the pass.
ApiFairness ==
    /\ SF_vars(RfListNs /\ rf'.pc = "writeNs")
    /\ \A n \in NsNames :
        SF_vars(RfListK /\ rf.ns = n /\ rf'.pc = "writeK")
    /\ SF_vars(RfListNodes /\ rf'.pc = "writeNodes")

FairInit == CacheInit(MaxFairOps, FALSE) /\ FnIdle /\ UIIdle
FairSpec == FairInit /\ [][Next]_vars /\ TaskFairness

\* Start on one goroutine and one call of Stop on another, as in main; the
\* context handed to Start is not cancelled by its owner
StopInit == CacheInit(MaxFairOps, FALSE) /\ FnIdle /\ UIIdle
StopNext ==
    \/ ClusterStep
    \/ StartCall
    \/ StartRefresh
    \/ StartSpawn
    \/ StopCall
    \/ RefreshStep
    \/ ResyncTick
    \/ ResyncExit
    \/ \E w \in Watchers : WatcherStep(w)
StopFairSpec == StopInit /\ [][StopNext]_vars /\ TaskFairness

\* a cache that is never stopped, against an API server that comes back
ResyncInit == CacheInit(MaxResyncOps, FALSE) /\ FnIdle /\ UIIdle
ResyncFairSpec ==
    ResyncInit /\ [][RunningNext]_vars /\ TaskFairness /\ ApiFairness

(***************************************************************************)
(* Properties of the cache                                                 *)
(***************************************************************************)
Range(s) == {s[i] : i \in 1..Len(s)}
NoDup(s) == \A i, j \in 1..Len(s) : i # j => s[i].name # s[j].name

\* C2: at every moment the namespace list and every (kind, namespace)
\* bucket (and the node list) hold at most one record per name.
C2_Uniqueness ==
    /\ NoDup(namespaces)
    /\ NoDup(nodes)
    /\ \A k \in NsKinds : \A n \in DOMAIN res[k] : NoDup(res[k][n])

\* a bucket filled by the resync whose watcher has reconnected and has
\* received the ADDED events of the objects it already holds
C2_Witness ==
    /\ wpc["pods"] = "stream"
    /\ streams["pods"] = <<>>
    /\ Names(ReadBucket("pods", "n1")) = {"p1"}
    /\ Len(namespaces) = 2
    /\ opsLeft < MaxClusterOps

\* C3: once a namespace DELETED was observed for N, every read of a
\* namespaced bucket keyed by N is empty until ADDED is observed for N.
C3_Cascade ==
    \A n \in nsGone : \A k \in NsKinds : ReadBucket(k, n) = <<>>

\* C5: IsReady is false until the full-list pass of Start has finished and
\* true from then on: it is true exactly when Start's Refresh returned nil.
C5_Ready == IsReady <=> startPc \in {"spawn", "returnedOk"}

C5_Witness ==
    /\ IsReady
    /\ startPc = "returnedOk"
    /\ Names(ReadBucket("pods", "n1")) = {"p1"}

\* what NewResourceCache built is still there
CacheUntouched ==
    /\ namespaces = <<>>
    /\ nodes = <<>>
    /\ res = [k \in NsKinds |-> EmptyMap]

NothingStarted ==
    /\ \A w \in Watchers : wpc[w] = "unspawned"
    /\ resyncPc = "unspawned"

\* C6: when the namespace list of Start's Refresh fails, Start returns the
\* error; after that no watcher and no resync task runs, the cache is as
\* it was built, and IsReady is false.
C6_StartFails ==
    /\ [][(rf.owner = "start" /\ rf.pc = "listNs" /\ rf'.pc = "idle")
            => startPc' = "returnedErr"]_vars
    /\ [](startPc = "returnedErr"
            => NothingStarted /\ CacheUntouched /\ ~IsReady /\ ~refreshing)

C6_Witness ==
    /\ startPc = "returnedErr"
    /\ ctxSet
    /\ rf = RfIdle
    /\ ClNsNames # {}

TasksStopped ==
    /\ startPc \in {"returnedOk", "returnedErr"}
    /\ \A w \in Watchers : wpc[w] \in {"unspawned", "done"}
    /\ resyncPc \in {"unspawned", "done"}

\* C7: once rc.ctx is cancelled by Stop every watcher and the resync task
\* end, wherever they were; a Stop on a cancelled or never started cache
\* changes nothing.
C7_StopTerminates ==
    /\ cancelled ~> TasksStopped
    /\ [][(Stop /\ (cancelled \/ ~ctxSet)) => UNCHANGED vars]_vars

C7_Witness ==
    /\ cancelled
    /\ TasksStopped
    /\ \E w \in Watchers : wpc[w] = "done"
    /\ resyncPc = "done"

\* C8: while rc.ctx is not cancelled a watcher whose stream ended or failed
\* to open calls Watch again; a watcher returns only when it is cancelled.
C8_Reconnect ==
    /\ \A w \in Watchers :
          (wpc[w] \in {"sleep1", "sleep5"} /\ ~cancelled)
              ~> (wpc[w] = "watch" \/ cancelled)
    /\ [](\A w \in Watchers : wpc[w] = "done" => cancelled)

C8_Witness ==
    /\ ~cancelled
    /\ wpc["pods"] = "sleep5"
    /\ wpc["namespaces"] = "sleep1"

Consistent ==
    /\ Names(namespaces) = ClNsNames
    /\ Names(nodes) = SetNames(cl["nodes"][Cluster])
    /\ \A k \in NsKinds : \A n \in NsNames :
          Names(ReadBucket(k, n)) = SetNames(cl[k][n])

\* C9: unless the cache is stopped (or Start failed), the cache eventually
\* holds exactly the names of the cluster and keeps holding them.
C9_EventuallyConsistent ==
    <>[](cancelled \/ startPc = "returnedErr" \/ Consistent)

\* C10: after a resync all of whose list calls succeeded, with no watch
\* event applied meanwhile, every bucket holds what its list call (or, for
\* a namespace the namespace list did not return, nothing) showed.
C10_ResyncRepairs ==
    obs.done =>
        /\ Range(namespaces) = obs.ns
        /\ Range(nodes) = obs.nodes
        /\ \A k \in NsKinds : \A n \in NsNames :
              Range(ReadBucket(k, n)) = obs.objs[k][n]


(***************************************************************************)
(* Properties of the classifier and of the UI                              *)
(***************************************************************************)
\* the verb of section 4.C: the first token after an optional leading kubectl
VerbOf(l) ==
    LET args == IF l.toks # <<>> /\ l.toks[1] = "kubectl"
                THEN Tail(l.toks) ELSE l.toks
    IN  IF args = <<>> THEN "" ELSE args[1]

Destructive(l) ==
    /\ ~l.bang
    /\ \/ VerbOf(l) \in {"delete", "drain", "cordon", "rollout"}
       \/ \E i \in 1..Len(l.toks) : l.toks[i] = "--force"

\* C4: IsDestructive(line) is true exactly when the line is no shell
\* command and its verb (the first token after an optional leading
\* kubectl) is delete, drain, cordon or rollout, or a token is --force.
C4_Classifier == verdict # <<>> => verdict[1] = Destructive(line)

\* C1: a destructive command reaches the executor only after the UI has
\* entered the confirmation state for it.
C1_ConfirmedFirst == Destructive(lastRun.cmd) => lastRun.asked

\* C11: a read returns what its bucket held at one instant of the call
\* (the moment the shared lock was taken): while the read copies, what it
\* has copied is a prefix of that content and the bucket still holds it;
\* the list it returns is that content, and only the next read's return
\* changes the returned list.
C11_SnapshotReads ==
    /\ [](rd.pc = "copy" =>
            /\ Bucket(rd.k, rd.ns) = rd.snap
            /\ rd.out = SubSeq(rd.snap, 1, Len(rd.out)))
    /\ [][ReadUnlock => held' = rd.snap]_vars
    /\ [][held' # held => ReadUnlock]_vars

C11_Witness ==
    /\ rd.pc = "copy"
    /\ rd.k = "pods"
    /\ rd.out = <<Rec("p1", 0)>>
    /\ streams["pods"] # <<>>
    /\ wpc["pods"] = "stream"

\* C12: Start returns without waiting for the initial full-list pass: the
\* pass that Start began never runs while Start has not yet returned.
C12_StartDoesNotWait ==
    (rf.owner = "start" /\ rf.pc # "idle") => startPc = "returnedOk"

\* C13: once IsReady is true it is true in every later state, whatever
\* fails, reconnects or stops.
C13_ReadyMonotonic == [][IsReady => IsReady']_vars

\* ready, then stopped, after a resync that failed at its namespace list
C13_Witness ==
    /\ IsReady
    /\ cancelled
    /\ resyncPc = "done"
    /\ \E w \in Watchers : wpc[w] = "done"

\* C14: in the confirmation state the key y hands the pending command
\* (m.lastCmd) to the executor and the key n goes back to typing without
\* handing it over.
C14_ConfirmAnswers ==
    (mode = "Confirming" /\ executorOk /\ Len(pending) < MaxPending) =>
        /\ ENABLED (KeyConfirming("y") /\ pending' = Append(pending, lastCmd))
        /\ ENABLED (KeyConfirming("n") /\ mode' = "Typing"
                        /\ pending' = pending)

IsPrefix(q, t) == Len(q) <= Len(t) /\ SubSeq(t, 1, Len(q)) = q

\* the paths of the grammar that are a prefix of the tokens
PrefixPaths(g, t) == {g[i].path : i \in 1..Len(g)} \cap {q \in Paths : IsPrefix(q, t)}

\* C16: MatchCommand returns a spec of the grammar whose path is the
\* longest path that is a prefix of the tokens, with consumed the length
\* of that path; it returns nothing exactly when no path is a prefix.
C16_LongestPrefix ==
    matched # <<>> =>
        LET m == matched[1]
            pp == PrefixPaths(root, tokens)
        IN  IF pp = {}
            THEN m.cmd = NoRuntime /\ m.n = 0
            ELSE /\ m.cmd # NoRuntime
                 /\ \E i \in 1..Len(root) : m.cmd.spec = root[i]
                 /\ m.cmd.spec.path \in pp
                 /\ \A q \in pp : Len(q) <= Len(m.cmd.spec.path)
                 /\ m.n = Len(m.cmd.spec.path)

\* a two-token path matched although a one-token path is a prefix too
C16_Witness ==
    /\ matched # <<>>
    /\ Len(tokens) = 3
    /\ matched[1].n = 2
    /\ \E i \in 1..Len(root) : root[i].path = <<tokens[1]>>

\* C17: in the built registry every alias a of every flag F of a command
\* is mapped by that command's alias-to-primary mapping to F.primary.
C17_AliasRoundTrip ==
    Built =>
        \A key \in DOMAIN cmds :
            LET c == cmds[key] IN
            \A k \in DOMAIN c.spec.flags :
                LET F == c.spec.flags[k] IN
                \A i \in 1..Len(F.aliases) :
                    /\ F.aliases[i] \in DOMAIN c.aliasToPrimary
                    /\ c.aliasToPrimary[F.aliases[i]] = F.primary

\* C18: building the same commands again, in the same or in another
\* order, gives the same command index and the same alias mappings.
C18_Deterministic == (Built /\ prev # <<>>) => cmds = prev[1]

\* descending score and, among equal scores, ascending value
SortedSuggestions(s) ==
    \A i \in 1..(Len(s) - 1) :
        \/ s[i].score > s[i + 1].score
        \/ s[i].score = s[i + 1].score /\ ~StrLess(s[i + 1].value, s[i].value)

\* C19: for every line, cursor and context, the list Complete returns is
\* sorted by descending score and, among equal scores, by ascending value
C19_SortedOutput == \A k \in 1..Len(cout) : SortedSuggestions(cout[k])

\* a call returned flags and cache values, some with equal and some with
\* different scores
C19_Witness ==
    /\ cout # <<>>
    /\ \E i, j, k \in 1..Len(cout[1]) :
        /\ cout[1][i].score > cout[1][j].score
        /\ cout[1][j].score = cout[1][k].score
        /\ cout[1][j].value # cout[1][k].value
        /\ cout[1][i].kind = "flag"
        /\ cout[1][j].kind # "flag"

\* C20: two calls of Complete with the same line, cursor and context, on
\* the same registry and cache snapshot, return the same suggestions in the
\* same order
C20_Pure == Len(cout) = 2 => cout[1] = cout[2]

\* the tokens of the call: the line cut at the cursor, split, kubectl stripped
CallSegment ==
    LET c == cin[1]
    IN  SubSeq(c.line, 1, IF c.cursor < 0 \/ c.cursor > Len(c.line)
                          THEN Len(c.line) ELSE c.cursor)
CallTokens == normalizeKubectl(Fields(CallSegment))
CallTrailingSpace == CallSegment # <<>> /\ IsSpace(CallSegment[Len(CallSegment)])
ValuesOf(out) == {out[i].value : i \in 1..Len(out)}

\* C21: for the line rollout r with the cursor at its end, Complete returns
\* restart first, returns history and resume too, and every suggestion it
\* returns scores above every flag of the grammar
C21_RolloutR ==
    (cin # <<>> /\ CallSegment = Join(<<Rollout, <<"r">>>>)) =>
        \A k \in 1..Len(cout) :
            /\ cout[k] # <<>>
            /\ cout[k][1].value = Restart
            /\ {History, Resume} \subseteq ValuesOf(cout[k])
            /\ \A i \in 1..Len(cout[k]), key \in DOMAIN cmds :
                \A f \in DOMAIN cmds[key].spec.flags :
                    cout[k][i].score > scoreFlag(cmds[key].spec.flags[f])

\* the paths of the registry that strictly extend the tokens of the call
IsStrictPrefix(s, t) == Len(s) < Len(t) /\ SubSeq(t, 1, Len(s)) = s
LongerPaths ==
    {cmds[key].spec.path : key \in {x \in DOMAIN cmds :
                                IsStrictPrefix(CallTokens, cmds[x].spec.path)}}
AtWholePath ==
    /\ cin # <<>>
    /\ ~CallTrailingSpace
    /\ \E key \in DOMAIN cmds : cmds[key].spec.path = CallTokens
    /\ LongerPaths # {}

CallMatch == MatchCommand(cmds, CallTokens)
CallArgs == SubSeq(CallTokens, CallMatch.n + 1, Len(CallTokens))
NamesIn(out, kind) ==
    {out[i].value : i \in {j \in 1..Len(out) : out[j].kind = kind}}
SeqSet(t) == {t[i] : i \in 1..Len(t)}

\* the call comes after the first argument of a command with the
\* positionals resource-type, resource-name: a plain word, then a blank
AfterResourceType ==
    /\ cin # <<>>
    /\ cworld # <<>>
    /\ CallMatch.n > 0
    /\ CallTrailingSpace
    /\ Len(CallArgs) = 1
    /\ ~isFlagToken(CallArgs[1])
    /\ ~Contains(CallArgs[1], <<"/">>)
    /\ Len(CallMatch.cmd.spec.positionals) >= 2
    /\ CallMatch.cmd.spec.positionals[1].kind = "resource-type"
    /\ CallMatch.cmd.spec.positionals[2].kind = "resource-name"

\* C23: when the next positional is a resource name and no argument is a
\* TYPE/NAME, the names offered are the cached names of the kind given as the
\* first positional argument, in the context's namespace
C23_KindFromFirstPositional ==
    AfterResourceType =>
        \A k \in 1..Len(cout) :
            NamesIn(cout[k], "resource-name") =
                SeqSet(CacheResourceNames(cworld[1], CallArgs[1], cin[1].ns))

\* the call comes after the last positional of a command whose first
\* positional is a resource type: plain words only, then a blank
AllPositionalsGiven ==
    /\ cin # <<>>
    /\ cworld # <<>>
    /\ CallMatch.n > 0
    /\ CallTrailingSpace
    /\ Len(CallArgs) >= 1
    /\ Len(CallArgs) = Len(CallMatch.cmd.spec.positionals)
    /\ \A i \in 1..Len(CallArgs) : ~isFlagToken(CallArgs[i])
    /\ CallMatch.cmd.spec.positionals[1].kind = "resource-type"

\* C24: when all positionals are given and the first is a resource type,
\* Complete returns one resource name for each cached name of that type in
\* the namespace, and no flag comes before a resource name
C24_NamesBeforeFlags ==
    AllPositionalsGiven =>
        \A k \in 1..Len(cout) :
            /\ NamesIn(cout[k], "resource-name") =
                SeqSet(CacheResourceNames(cworld[1], CallArgs[1], cin[1].ns))
            /\ \A i, j \in 1..Len(cout[k]) :
                (cout[k][i].kind = "flag" /\ cout[k][j].kind = "resource-name")
                    => j < i

\* the call is in positional-and-flag mode with arguments or a trailing
\* blank: a command matched, the last argument is neither a flag with a blank
\* after it nor a value being typed after a flag
InFlagMode ==
    /\ cin # <<>>
    /\ CallMatch.n > 0
    /\ CallTrailingSpace \/ Len(CallArgs) >= 1
    /\ ~(/\ ~CallTrailingSpace
         /\ Len(CallArgs) >= 2
         /\ isFlagToken(CallArgs[Len(CallArgs) - 1])
         /\ ~isFlagToken(CallArgs[Len(CallArgs)]))
    /\ ~(/\ CallTrailingSpace
         /\ Len(CallArgs) > 0
         /\ isFlagToken(CallArgs[Len(CallArgs)]))

\* the command's flags one of whose forms stands at a position of P
CallFlags == CallMatch.cmd.spec.flags
FormsOf(f) == {f.primary} \cup SeqSet(f.aliases)
FlagsAt(P) ==
    {key \in DOMAIN CallFlags : \E i \in P : CallArgs[i] \in FormsOf(CallFlags[key])}

\* the flag suggestions are the flags not in used, each once
SuggestsAllBut(out, used) ==
    /\ \A key \in DOMAIN CallFlags \ used :
        Cardinality({i \in 1..Len(out) :
            out[i].kind = "flag" /\ out[i].value = CallFlags[key].primary}) = 1
    /\ \A i \in 1..Len(out) :
        out[i].kind = "flag" =>
            \E key \in DOMAIN CallFlags \ used : out[i].value = CallFlags[key].primary

\* the positions of the flag tokens, and those of them that are not the
\* value of the flag before them
FlagTokenPositions == {i \in 1..Len(CallArgs) : isFlagToken(CallArgs[i])}
RECURSIVE IsFlagOccurrence(_)
IsFlagOccurrence(i) ==
    /\ isFlagToken(CallArgs[i])
    /\ ~(/\ i > 1
         /\ IsFlagOccurrence(i - 1)
         /\ \E key \in DOMAIN CallFlags :
                /\ CallArgs[i - 1] \in FormsOf(CallFlags[key])
                /\ CallFlags[key].after # <<>>)
FlagOccurrencePositions == {i \in 1..Len(CallArgs) : IsFlagOccurrence(i)}

\* C25 as stated: in positional-and-flag mode the flags suggested are, each
\* once, the flags none of whose forms is a flag token of the arguments
C25_NoFormOccurs ==
    InFlagMode =>
        \A k \in 1..Len(cout) : SuggestsAllBut(cout[k], FlagsAt(FlagTokenPositions))

\* C25: in positional-and-flag mode the flags suggested are, each once, the
\* flags none of whose forms occurs in the arguments, where a flag token that
\* stands as the value of a value-taking flag is not an occurrence
C25_UnusedFlags ==
    InFlagMode =>
        \A k \in 1..Len(cout) :
            SuggestsAllBut(cout[k], FlagsAt(FlagOccurrencePositions))

\* a call in that mode, with a flag used and a flag left to suggest
C25_Witness ==
    /\ InFlagMode
    /\ Len(cout) = 1
    /\ FlagsAt(FlagOccurrencePositions) # {}
    /\ \E i \in 1..Len(cout[1]) : cout[1][i].kind = "flag"

\* a call in that mode, after a flag given by its alias
C25_AliasUsed ==
    /\ InFlagMode
    /\ \E i \in FlagOccurrencePositions, key \in DOMAIN CallFlags :
        /\ CallArgs[i] \in SeqSet(CallFlags[key].aliases)
        /\ CallArgs[i] # CallFlags[key].primary

(***************************************************************************)
(* Properties of the parser                                                *)
(***************************************************************************)
Force == <<"f", "o", "r", "c", "e">>

\* C26: parsing kubectl apply -f deployment.yaml -n prod --force yields the
\* verb apply, the flags filename = deployment.yaml and namespace = prod, the
\* boolean flags {force}, the files [deployment.yaml], the namespace prod
\* and a valid command
C26_ApplyScenario ==
    (pin # <<>> /\ pin[1] = ApplyLine) =>
        /\ pout[1].verb = Apply
        /\ pout[1].flags = (Filename :> DeploymentYaml) @@ (Namespace :> Prod)
        /\ DOMAIN pout[1].boolFlags = {Force}
        /\ pout[1].boolFlags[Force]
        /\ pout[1].files = <<DeploymentYaml>>
        /\ pout[1].namespace = Prod
        /\ pout[1].isValid

\* the fields of a ParsedCommand a repeated flag is compared on
SameParse(a, b) ==
    /\ a.verb = b.verb
    /\ a.resource = b.resource
    /\ a.flags = b.flags
    /\ a.boolFlags = b.boolFlags
    /\ a.needsInput = b.needsInput
    /\ a.isValid = b.isValid

AllNamespaces ==
    <<"a", "l", "l", "-", "n", "a", "m", "e", "s", "p", "a", "c", "e", "s">>
GetAllTwice == Join(<<Kubectl, Get, Pods, DashA, DashA>>)

\* kubectl get pods -A -A is valid and has all-namespaces set
GetAllTwiceParsed ==
    \A k \in DOMAIN pin :
        pin[k] = GetAllTwice =>
            /\ pout[k].isValid
            /\ AllNamespaces \in DOMAIN pout[k].boolFlags
            /\ pout[k].boolFlags[AllNamespaces]

\* the token is a flag that Parse looks for a value of
IsValueFlagToken(token) ==
    /\ \/ HasPrefix(token, <<"-", "-">>)
       \/ HasPrefix(token, <<"-">>) /\ Len(token) = 2
    /\ ~IsBooleanToken(token)

\* field j of the first line is the value of the flag before it
InValueSlot(fields, j) ==
    /\ j - 1 > VerbAt(fields)
    /\ j <= Len(fields)
    /\ IsValueFlagToken(fields[j - 1])
    /\ ~HasPrefix(fields[j], <<"-">>)

\* the second line has the copy of a boolean flag between a flag and the
\* value the first line gives it
CopyInValueSlot ==
    LET fields == Fields(pin[1])
        first == VerbAt(fields) + 1
    IN  \E i \in first..Len(fields), j \in first..(Len(fields) + 1) :
            /\ IsBooleanToken(fields[i])
            /\ pin[2] = Join(InsertAt(fields, j, fields[i]))
            /\ InValueSlot(fields, j)

\* C27 as stated: a line with a boolean flag given twice parses to the same
\* verb, resource, flags, boolean flags, needs and validity as the line with
\* the flag given once, wherever the second copy is written; kubectl get
\* pods -A -A is valid and has all-namespaces set
C27_RepeatAnywhere ==
    /\ Len(pin) = 2 => SameParse(pout[1], pout[2])
    /\ GetAllTwiceParsed

\* C27: a line with a boolean flag given twice parses to the same verb,
\* resource, flags, boolean flags, needs and validity as the line with the
\* flag given once, unless the second copy is written between a flag that
\* takes a value and its value; kubectl get pods -A -A is valid and has
\* all-namespaces set
C27_RepeatedFlag ==
    /\ (Len(pin) = 2 /\ ~CopyInValueSlot) => SameParse(pout[1], pout[2])
    /\ GetAllTwiceParsed

C27_Witness ==
    /\ Len(pin) = 2
    /\ pin[1] = GetAllLine
    /\ pin[2] = GetAllTwice
    /\ pout[2].boolFlags = (AllNamespaces :> TRUE)

\* a second copy that is not next to the first, and one in a value slot
C27_Apart ==
    /\ Len(pin) = 2
    /\ pin[1] = Join(<<Get, DashA, Pods>>)
    /\ pin[2] = Join(<<Get, DashA, Pods, DashA>>)
C27_InSlot ==
    /\ Len(pin) = 2
    /\ CopyInValueSlot

\* the command has a required need that is not the need of a flag's value
HasRequiredPositionalNeed(cmd) ==
    \E i \in DOMAIN cmd.needsInput :
        cmd.needsInput[i].required /\ cmd.needsInput[i].flag = <<>>

\* C28: for every line that parses as valid, is_complete is true exactly
\* when needs_input has no required entry; a missing resource is a required
\* need for the verbs get, describe, delete, edit, logs and exec, a missing
\* resource name for the verbs describe, delete, edit, logs and exec
C28_CompleteIffNoRequired ==
    \A k \in DOMAIN pout :
        pout[k].isValid =>
            /\ pout[k].isComplete <=>
                   ~\E i \in DOMAIN pout[k].needsInput :
                        pout[k].needsInput[i].required
            /\ ( /\ pout[k].verb \in {Get, Describe, Delete, Edit, Logs, Exec}
                 /\ pout[k].resource = <<>> )
               => HasRequiredPositionalNeed(pout[k])
            /\ ( /\ pout[k].verb \in {Describe, Delete, Edit, Logs, Exec}
                 /\ pout[k].resourceName = <<>> )
               => HasRequiredPositionalNeed(pout[k])

\* describe pods lacks the resource name, apply --filename the flag's value
C28_Witness ==
    /\ pin = <<Join(<<Describe, Pods>>)>>
    /\ pout[1].isValid
    /\ ~pout[1].isComplete
    /\ HasRequiredPositionalNeed(pout[1])
C28_FlagNeed ==
    /\ pin = <<Join(<<Apply, DashFilename>>)>>
    /\ ~pout[1].isComplete
    /\ ~HasRequiredPositionalNeed(pout[1])
C28_Complete ==
    /\ pin = <<Join(<<Get, Pods, DashN>>)>>
    /\ pout[1].isComplete
    /\ Len(pout[1].needsInput) = 1

\* Parse rejects the line of call k
Rejected(k) == ~pout[k].isValid /\ pout[k].errors # <<>>

\* the line is empty, is empty but for a leading kubectl, is a shell line,
\* has a verb that kubectl does not know
IsEmptyLine(command) == Fields(command) = <<>>
IsBareKubectl(command) == Fields(command) = <<Kubectl>>
IsShellLine(command) == HasPrefix(TrimSpace(command), <<"!">>)
HasUnknownVerb(command) ==
    LET fields == Fields(command)
    IN  /\ fields # <<>>
        /\ ~IsShellLine(command)
        /\ fields[VerbAt(fields)] \in {Foo, Kubectl}

\* the empty lines and the shell lines are rejected
EmptyAndShellRejected ==
    \A k \in DOMAIN pin :
        (IsEmptyLine(pin[k]) \/ IsShellLine(pin[k])) => Rejected(k)

\* C29: Parse returns is_valid = false and a non-empty list of errors for an
\* empty line, also one that is empty once a leading kubectl is stripped,
\* for a line that begins with ! and for a line whose verb is no kubectl
\* verb
C29_Rejects ==
    \A k \in DOMAIN pin :
        ( \/ IsEmptyLine(pin[k])
          \/ IsBareKubectl(pin[k])
          \/ IsShellLine(pin[k])
          \/ HasUnknownVerb(pin[k]) )
        => Rejected(k)

\* the lines kubectl and foo are taken for valid commands
C29_BareKubectlValid ==
    /\ pin = <<Kubectl \o <<" ">>>>
    /\ pout[1].isValid
    /\ pout[1].verb = Kubectl
C29_UnknownVerbValid ==
    /\ pin = <<Join(<<Kubectl, Foo>>)>>
    /\ pout[1].isValid
    /\ pout[1].verb = Foo
    /\ pout[1].errors = <<>>

(***************************************************************************)
(* Properties of the History                                               *)
(***************************************************************************)
\* C30: a History never holds more than maxSize entries, after any sequence
\* of Add, Delete, Clear and Load, also when the loaded file holds more than
\* maxSize entries
C30_AtMostMaxSize == Len(hist) <= HistMaxSize

\* what holds instead: the History holds no more entries than the larger of
\* maxSize and the length of the file it loaded, and Add trims it
C30_AddTrims == [][HistAdd => Len(hist') <= HistMaxSize]_vars
C30_Overfull ==
    /\ Len(disk) > HistMaxSize
    /\ hist = disk

\* C31: entries are kept newest first: after Add(c) the list that Get
\* returns is c followed by the previous entries in their previous order,
\* without the oldest ones beyond maxSize
C31_NewestFirst ==
    [][HistAdd =>
        LET got == HistoryGet(hist', Len(hist) + 1)
            kept == Len(got) - 1
        IN  /\ got # <<>>
            /\ got[1] \in HistEntries
            /\ kept = IF Len(hist) + 1 > HistMaxSize THEN HistMaxSize - 1
                      ELSE Len(hist)
            /\ \A j \in 1..kept : got[j + 1] = hist[j]]_vars

\* Adds of different commands into a History that started empty
C31_Witness ==
    /\ disk = <<>>
    /\ Len(hist) = HistMaxSize
    /\ hist[1].cmd # hist[HistMaxSize].cmd

\* the Adds that have returned, the Deletes and Clears that have returned
RECURSIVE SumOver(_, _)
SumOver(f, S) ==
    IF S = {} THEN 0
    ELSE LET g == CHOOSE x \in S : TRUE IN f[g] + SumOver(f, S \ {g})
AddsDone == SumOver([g \in HistGoroutines |-> hgo[g].adds], HistGoroutines)
RemovesDone ==
    SumOver([g \in HistGoroutines |-> hgo[g].removes], HistGoroutines)
NoAddRunning == \A g \in HistGoroutines : hgo[g].op # "Add"

\* C32: concurrent Add calls lose no entry: after k Add calls from several
\* goroutines into a History that was empty, with maxSize at least k and no
\* Delete or Clear, the History holds exactly k entries
C32_NoLostAdd ==
    (NoAddRunning /\ RemovesDone = 0 /\ AddsDone <= HistMaxSize)
        => Len(hist) = AddsDone

\* each goroutine has returned from one Add
C32_Witness ==
    /\ \A g \in HistGoroutines : hgo[g].adds = 1 /\ hgo[g].pc = "idle"
    /\ RemovesDone = 0
    /\ Len(hist) = 2

\* the goroutine is in a call, and waits in it for the mutex
InCall(g) == hgo[g].pc # "idle"
Waits(g) ==
    \/ hgo[g].pc = "lock" /\ ~CanLock(g)
    \/ hgo[g].pc = "wait" /\ ~NoReader
    \/ hgo[g].pc \in {"rlock", "rlock2"} /\ ~CanRLock(g)

\* C39: no interleaving of concurrent History calls deadlocks, every call
\* returns: whenever goroutines are in a call, one of them can go on
C39_NoDeadlock ==
    (\E g \in HistGoroutines : InCall(g))
        => \E g \in HistGoroutines : InCall(g) /\ ~Waits(g)

\* the calls wait for one another only with a Search("") among them: it
\* holds the read lock and waits for it again behind a writer
DeadlockOnlyInSearchAll ==
    ~C39_NoDeadlock =>
        \E g, w \in HistGoroutines :
            /\ hgo[g].op = "Search" /\ hgo[g].pc = "rlock2" /\ hmu.r[g] = 1
            /\ hgo[w].op \in HistWrites /\ hgo[w].pc = "wait"
C39_SearchAndAdd ==
    \E g, w \in HistGoroutines :
        /\ hgo[g].op = "Search" /\ hgo[g].pc = "rlock2"
        /\ hgo[w].op = "Add" /\ hgo[w].pc = "wait"

\* C33: at most one resync runs at a time. The refreshing flag is set
\* exactly while a Refresh is between its first list call and its return,
\* whether it ends well or with an error; no Refresh takes the place of one
\* that is running; and a Refresh called while one is running returns nil
\* having made no list call and no write to the cache.
C33_OneResync ==
    /\ [](refreshing <=> rf.pc # "idle")
    /\ [][/\ rf.pc # "idle" => rf'.owner \in {rf.owner, "none"}
          /\ (RefreshCall /\ refreshing) =>
                (rcall' = "returnedNil" /\ UNCHANGED cacheVars)]_vars

\* a Refresh has returned nil while another one is listing a kind
C33_Witness ==
    rcall = "returnedNil" /\ refreshing /\ rf.pc \in {"listK", "writeK"}

\* a Refresh that ended with an error left the flag clear
C33_WitnessErr ==
    rf.pc = "idle" /\ ~refreshing /\ startPc = "returnedErr"


\* the records of a bucket that are not named n, and those that are
Others(s, n) == SelectSeq(s, LAMBDA r : r.name # n)
Named(s, n) == SelectSeq(s, LAMBDA r : r.name = n)

\* what an event for name n may do to its bucket: the other records keep
\* content and order; ADDED inserts n only if absent, MODIFIED replaces n
\* at its position (and does nothing if absent), DELETED removes n
EventOn(old, new, ev) ==
    LET n == ev.obj.name
        i == IndexOf(old, n)
    IN  /\ Others(new, n) = Others(old, n)
        /\ CASE ev.type = "ADDED" ->
                   IF i = 0 THEN Named(new, n) = <<ev.obj>> ELSE new = old
             [] ev.type = "MODIFIED" ->
                   IF i = 0 THEN new = old
                   ELSE Len(new) = Len(old) /\ new[i] = ev.obj
             [] OTHER -> Named(new, n) = <<>>

\* C34: a watch event for name n changes at most the record n of its
\* bucket (the namespace list for the namespace watcher, rc.pods[ns] for
\* the pod watcher) as EventOn says, and no other bucket changes, except
\* the buckets of a namespace whose DELETED event is applied.
C34_EventFrame ==
    [][\A w \in Watchers : WatchEvent(w) =>
         LET ev == Head(streams[w]) IN
           /\ nodes' = nodes
           /\ IF w = "namespaces"
              THEN /\ EventOn(namespaces, namespaces', ev)
                   /\ \A k \in NsKinds, ns \in NsNames :
                        \/ ev.type = "DELETED" /\ ns = ev.obj.name
                        \/ MapGet(res'[k], ns) = MapGet(res[k], ns)
              ELSE /\ EventOn(MapGet(res[w], ev.ns), MapGet(res'[w], ev.ns),
                              ev)
                   /\ namespaces' = namespaces
                   /\ \A k \in NsKinds, ns \in NsNames :
                        \/ k = w /\ ns = ev.ns
                        \/ MapGet(res'[k], ns) = MapGet(res[k], ns)]_vars

\* the namespace list in an order no list call returns: an ADDED event
\* has appended n1 behind n2
C34_Witness ==
    /\ Len(namespaces) = 2
    /\ Rank(namespaces[1].name) > Rank(namespaces[2].name)

\* a pod bucket that holds a pod while the namespace list is empty: the pod
\* watcher's ADDED has created it
C34_WitnessPod ==
    /\ namespaces = <<>>
    /\ \E ns \in NsNames : MapGet(res["pods"], ns) # <<>>


\* the record named n of a bucket is what the cluster has under that name
UpToDate(bucket, objs, n) ==
    {r \in Range(bucket) : r.name = n} = {r \in objs : r.name = n}

\* C37: a resync does not undo a newer watch event. When a watch event for
\* name n was applied to a bucket after the resync's list call for that
\* bucket, and the bucket's record (or absence) of n is what the cluster
\* has, the resync's write of the list result leaves it so.
C37_KeepsNewer ==
    [][RfWriteK =>
         \A n \in obs.late :
            LET k == KindSeq[rf.j] IN
            UpToDate(MapGet(res[k], rf.ns), cl[k][rf.ns], n) =>
                UpToDate(MapGet(res'[k], rf.ns), cl[k][rf.ns], n)]_vars

\* the resync is about to write a list that holds a record whose DELETED
\* event was applied after the list call
C37_Resurrects ==
    /\ rf.pc = "writeK"
    /\ \E n \in obs.late :
         /\ n \in Names(rf.got)
         /\ n \notin Names(MapGet(res[KindSeq[rf.j]], rf.ns))
         /\ n \notin SetNames(cl[KindSeq[rf.j]][rf.ns])


\* Start has returned, with or without an error
StartReturned == startPc \in {"returnedOk", "returnedErr"}

\* C38: once Stop and Start have both returned, however their statements
\* were interleaved, every watcher and the resync task end.
C38_StopEndsAll == (stopped /\ StartReturned) ~> TasksStopped

\* a Stop that found rc.cancel set ends every task
StopAfterStartEnds == (stopped /\ cancelled) ~> TasksStopped

\* Stop ran before Start's first statement, and the tasks are running
C38_StopBeforeStart ==
    /\ stopped /\ ~cancelled /\ StartReturned
    /\ \A w \in Watchers : wpc[w] = "stream"
    /\ resyncPc = "wait"


(***************************************************************************)
(* More properties of the completion engine                                *)
(***************************************************************************)
\* the call is made where a flag's value is being typed: a command is
\* matched, its last argument is not a flag, the one before it is, and no
\* blank follows
TypingFlagValue ==
    /\ cin # <<>>
    /\ CallMatch.n > 0
    /\ ~CallTrailingSpace
    /\ Len(CallArgs) >= 2
    /\ isFlagToken(CallArgs[Len(CallArgs) - 1])
    /\ ~isFlagToken(CallArgs[Len(CallArgs)])

\* the line of the call without its last token, and a blank after the flag
JustOpenedLine ==
    LET toks == Fields(CallSegment)
    IN  Join(SubSeq(toks, 1, Len(toks) - 1)) \o <<" ">>

\* C35: flag-value completion ignores the partial value. When the argument
\* before the last is a flag token and the last is not, with no trailing
\* space, Complete returns what it returns for the line without that last
\* argument and with a blank after the flag (under the same orders of the
\* two map ranges), and the call made returned one of these lists.
C35_IgnoresPartial ==
    TypingFlagValue =>
        /\ \A co \in Orders(DOMAIN cmds), fo \in Orders(CompFlagKeys) :
             Complete(cmds, cworld, CallSegment, -1, [ns |-> cin[1].ns], co, fo)
               = Complete(cmds, cworld, JustOpenedLine, -1, [ns |-> cin[1].ns],
                          co, fo)
        /\ \A k \in 1..Len(cout) :
             \E co \in Orders(DOMAIN cmds), fo \in Orders(CompFlagKeys) :
                cout[k] = Complete(cmds, cworld, JustOpenedLine, -1,
                                   [ns |-> cin[1].ns], co, fo)

\* a call that returned the values of a flag that takes one, with a partial
\* value typed
C35_Witness ==
    /\ TypingFlagValue
    /\ Len(cout) = 1
    /\ cout[1] # <<>>
    /\ CallArgs[Len(CallArgs) - 1] \in DOMAIN CallMatch.cmd.aliasToPrimary
    /\ FlagOf(CallMatch.cmd,
              CallMatch.cmd.aliasToPrimary[CallArgs[Len(CallArgs) - 1]]).after
         # <<>>


\* the argument at i is the value of a value-taking flag: the token before
\* it is an occurrence of a flag of the command whose descriptor has an after
IsFlagValue(i) ==
    /\ i > 1
    /\ IsFlagOccurrence(i - 1)
    /\ \E key \in DOMAIN CallFlags :
         /\ CallArgs[i - 1] \in FormsOf(CallFlags[key])
         /\ CallFlags[key].after # <<>>

\* the non-flag arguments that are not a flag's value, without the last
\* argument when no blank follows it
GivenPositionals ==
    {i \in 1..Len(CallArgs) :
        /\ ~isFlagToken(CallArgs[i])
        /\ ~IsFlagValue(i)
        /\ ~(i = Len(CallArgs) /\ ~CallTrailingSpace)}

\* what countSatisfiedPositionals returns for the call
CallCount ==
    countSatisfiedPositionals(CallMatch.cmd.spec.positionals, CallMatch.cmd,
                              CallArgs, CallTrailingSpace)

\* C36 as stated: the number of satisfied positionals is the number of
\* non-flag arguments that are not the value of a value-taking flag, without
\* the last argument when it is not a flag and no blank follows
C36_CountAsStated == InFlagMode => CallCount = Cardinality(GivenPositionals)

\* C36: the number of satisfied positionals is that number, but never more
\* than the number of positionals the command has
C36_CountCapped ==
    InFlagMode =>
        CallCount = IF Cardinality(GivenPositionals)
                        > Len(CallMatch.cmd.spec.positionals)
                    THEN Len(CallMatch.cmd.spec.positionals)
                    ELSE Cardinality(GivenPositionals)

\* a call after one positional, with the next one being typed
C36_Witness ==
    /\ InFlagMode
    /\ Len(cout) = 1
    /\ ~CallTrailingSpace
    /\ Len(CallArgs) = 2
    /\ ~isFlagToken(CallArgs[2])
    /\ CallCount = 1
    /\ Len(CallMatch.cmd.spec.positionals) = 2

\* a call after a flag and its value: the value is not counted
C36_WitnessValue ==
    /\ InFlagMode
    /\ Len(cout) = 1
    /\ Len(CallMatch.cmd.spec.positionals) > 0
    /\ \E i \in 1..Len(CallArgs) : IsFlagValue(i) /\ ~isFlagToken(CallArgs[i])


\* the first argument that the count takes as a positional
FirstGiven == CHOOSE i \in GivenPositionals : \A j \in GivenPositionals : i <= j

\* the call is made with every positional satisfied, the first of them a
\* resource type or name: the names of a resource type are looked up
AllSatisfied ==
    /\ InFlagMode
    /\ CallCount > 0
    /\ CallCount = Len(CallMatch.cmd.spec.positionals)
    /\ CallMatch.cmd.spec.positionals[1].kind \in {"resource-type", "resource-name"}

\* C40: when all positionals are satisfied, the token looked up as the
\* resource type is the token counted as the first positional, whatever
\* flags stand before it.
C40_SameToken ==
    AllSatisfied => getFirstNonFlagArg(CallArgs) = CallArgs[FirstGiven]

\* the two agree when no flag without a value stands right before a
\* positional
C40_AfterValueFlags ==
    (AllSatisfied /\ \A i \in GivenPositionals :
                        i > 1 => ~isFlagToken(CallArgs[i - 1]))
        => getFirstNonFlagArg(CallArgs) = CallArgs[FirstGiven]

\* get -A pods, then a blank: a call with a cache that returned no name
C40_BooleanBefore ==
    /\ cin # <<>>
    /\ cworld # <<>>
    /\ CallSegment = Join(<<Get, DashA, Pods>>) \o <<" ">>
    /\ Len(cout) = 1
    /\ NamesIn(cout[1], "resource-name") = {}

====
